---- MODULE Spec2Model ----
(***************************************************************************)
(* A model of the bank statement parser of src/parser.py with the layout   *)
(* registry of src/constants/banks.py.                                     *)
(*                                                                         *)
(* A statement text is a sequence of lines.  Lines are drawn from a fixed  *)
(* sample of concrete statement lines; for each regular expression of the  *)
(* registry and of the parser the set of sample lines it accepts (and the  *)
(* groups it captures) is tabulated below, as Python's re module computes  *)
(* them.  On top of these tables the detection, the line scan and the      *)
(* table assembly are translated statement by statement.                   *)
(***************************************************************************)
EXTENDS Integers, Sequences, FiniteSets, TLC

None == "None"          \* Python's None
Raised == [kind |-> "Raised"]      \* an exception that escapes to the caller

Min(a, b) == IF a <= b THEN a ELSE b

(***************************************************************************)
(* Sample lines.                                                           *)
(***************************************************************************)
BLANK == ""
SPACES == "   "

H_NAME == "HDFC BANK Ltd."
H_HDR == "Date  Narration  Chq./Ref.No.  Value Dt  Withdrawal Amt.  Deposit Amt.  Closing Balance"
H_TXN1 == "01/04/23 UPI-SHOP 0000123 01/04/23 100.00  900.00"
H_TXN2 == "  02/04/23 NEFT SALARY N456 02/04/23  5,000.00 5,900.00"
H_BAD == "03/04/23 X 03/04/23 1.00 2.00 3.00"
H_CONT == "PAYMENT TO MERCHANT"
H_FOOT_ABS == "STATEMENT SUMMARY :-"
H_FOOT_EXC == "TOTAL DEBITS 100.00"
H_NOISE == "Page No.: 2"

U_NAME == "Union Bank of India"
U_HDR == "S.No  Date  Transaction Id  Remarks  Amount(Rs.)  Balance(Rs.)"
U_HDRTXN == "1 01/04/2023 T1 S.No Date Transaction Id Remarks Amount (Rs.) Balance (Rs.) 100.00 (Dr) 900.00 (Cr)"
U_TXN_S == "1 01/04/2023 S12345 UPI/SHOP 100.00 (Dr) 900.00 (Cr)"
U_TXN_M == "2 02/04/2023 S67890 NEFT/ACME 5,000.00 (Cr)"
U_BAL == "5,900.00 (Cr)"
U_BAD == "3 03/04/2023 garbage"
U_CONT == "MERCHANT PAYMENT"
U_FOOT_ABS == "Generated On: 05/04/2023"
U_FOOT_EXC == "This is system generated statement"
U_NOISE == "Page 2"

S_NAME == "State Bank of India"
S_NAME_IN == "NEFT CR-State Bank of India-ACME"
S_NAME_WORD == "State Bank of Indiana"
S_HDR == "S.No Date Transaction Id Remarks Amount Balance"
S_TXN == "1 01/04/2023 T123 ATM WDL 100.00 (Dr) 900.00 (Cr)"
S_BAD == "2 garbage"
S_CONT == "ATM CASH 1234"
S_FOOT == "This is system generated"

\* the same fields two spaces apart, and a row whose remarks hold an amount
H_TXN1_W == "01/04/23  UPI-SHOP  0000123  01/04/23  100.00    900.00"
H_TXN2_W == "02/04/23  NEFT SALARY  N456  02/04/23    5,000.00  5,900.00"
U_TXN_S_W == "1  01/04/2023  S12345  UPI/SHOP  100.00 (Dr)  900.00 (Cr)"
U_TXN_M_W == "2  02/04/2023  S67890  NEFT/ACME  5,000.00 (Cr)"
S_TXN_W == "1  01/04/2023  T123  ATM WDL  100.00 (Dr)  900.00 (Cr)"
S_FEE == "1 01/04/2023 T123 FEE 1.00 (Dr) 100.00 (Dr) 900.00 (Cr)"
S_FEE_W == "1  01/04/2023  T123  FEE 1.00 (Dr)  100.00 (Dr)  900.00 (Cr)"

\* HDFC rows with two amounts, and a row whose markers are spelt (DR), (cr)
H_BOTH == "01/04/23 TRANSFER 0000123 01/04/23 100.00 5,000.00 5,900.00"
H_BOTH_W == "01/04/23  TRANSFER  0000123  01/04/23  100.00  5,000.00  5,900.00"
H_ZERO == "02/04/23 INTEREST N456 02/04/23 0.00 5,000.00 5,900.00"
H_ZERO_W == "02/04/23  INTEREST  N456  02/04/23  0.00  5,000.00  5,900.00"
U_TXN_UP == "2 02/04/2023 S67890 CARD 100.00 (DR) 800.00 (cr)"
U_TXN_UP_W == "2  02/04/2023  S67890  CARD  100.00 (DR)  800.00 (cr)"

\* HDFC rows with a date that is none and with no amount, and a Union Bank
\* row that ends with a second marker
H_DATE == "31/02/23 UPI-SHOP 0000123 31/02/23 100.00  900.00"
H_DATE_W == "31/02/23  UPI-SHOP  0000123  31/02/23  100.00    900.00"
H_NONE == "01/04/23 CHARGES 0000123 01/04/23   900.00"
H_NONE_W == "01/04/23  CHARGES  0000123  01/04/23      900.00"
U_TXN_MT == "2 02/04/2023 S67890 NEFT/ACME 5,000.00 (Cr) (Cr)"

(***************************************************************************)
(* str.strip() and re.sub(r'\s+', ' ', line).strip() on the sample lines.  *)
(***************************************************************************)
Strip(l) ==
    CASE l = SPACES -> ""
      [] l = H_TXN2 -> "02/04/23 NEFT SALARY N456 02/04/23  5,000.00 5,900.00"
      [] OTHER -> l

Collapse(l) ==
    CASE l = SPACES -> ""
      [] l = H_HDR -> "Date Narration Chq./Ref.No. Value Dt Withdrawal Amt. Deposit Amt. Closing Balance"
      [] l = U_HDR -> "S.No Date Transaction Id Remarks Amount(Rs.) Balance(Rs.)"
      [] l = H_TXN1 -> "01/04/23 UPI-SHOP 0000123 01/04/23 100.00 900.00"
      [] l = H_TXN2 -> "02/04/23 NEFT SALARY N456 02/04/23 5,000.00 5,900.00"
      [] l = Strip(H_TXN2) -> "02/04/23 NEFT SALARY N456 02/04/23 5,000.00 5,900.00"
      [] l = H_TXN1_W -> "01/04/23 UPI-SHOP 0000123 01/04/23 100.00 900.00"
      [] l = H_TXN2_W -> "02/04/23 NEFT SALARY N456 02/04/23 5,000.00 5,900.00"
      [] l = U_TXN_S_W -> U_TXN_S
      [] l = U_TXN_M_W -> U_TXN_M
      [] l = S_TXN_W -> S_TXN
      [] l = S_FEE_W -> S_FEE
      [] l = H_BOTH_W -> H_BOTH
      [] l = H_ZERO_W -> H_ZERO
      [] l = U_TXN_UP_W -> U_TXN_UP
      [] l \in {H_DATE, H_DATE_W} -> "31/02/23 UPI-SHOP 0000123 31/02/23 100.00 900.00"
      [] l \in {H_NONE, H_NONE_W} -> "01/04/23 CHARGES 0000123 01/04/23 900.00"
      [] OTHER -> l

(***************************************************************************)
(* The layout registry.                                                    *)
(***************************************************************************)
BANKS == <<"SBI", "HDFC", "UNION_BANK">>      \* the keys, in insertion order

BankKeys == {BANKS[k] : k \in 1..Len(BANKS)}

BankName(b) ==
    CASE b = "SBI" -> "State Bank of India"
      [] b = "HDFC" -> "HDFC Bank"
      [] b = "UNION_BANK" -> "Union Bank of India"

\* re.search(r'\b' + re.escape(config['name']) + r'\b', line, re.IGNORECASE)
NameSearch(b, l) ==
    CASE b = "SBI" -> l \in {S_NAME, S_NAME_IN}
      [] b = "HDFC" -> l \in {H_NAME}
      [] b = "UNION_BANK" -> l \in {U_NAME}

\* re.compile(config['header'], re.IGNORECASE).search(c), c a collapsed line
HeaderSearch(b, c) ==
    CASE b = "SBI" -> c \in {Collapse(S_HDR)}
      [] b = "HDFC" -> c \in {Collapse(H_HDR)}
      [] b = "UNION_BANK" -> c \in {Collapse(U_HDR), U_HDRTXN}

\* re.compile(config['transaction_start_pattern']).search(l); every start
\* pattern opens with ^\s*, so the raw and the stripped line agree.
StartSearch(b, l) ==
    CASE b = "SBI" ->
           Strip(l) \in {Strip(H_TXN1), Strip(H_TXN2), H_BAD, U_HDRTXN, U_TXN_S, U_TXN_M,
                         U_BAL, U_BAD, S_TXN, S_BAD, H_TXN1_W, H_TXN2_W, U_TXN_S_W,
                         U_TXN_M_W, S_TXN_W, S_FEE, S_FEE_W, H_BOTH, H_BOTH_W, H_ZERO,
                         H_ZERO_W, U_TXN_UP, U_TXN_UP_W, H_DATE, H_DATE_W, H_NONE,
                         H_NONE_W, U_TXN_MT}
      [] b = "HDFC" ->
           Strip(l) \in {Strip(H_TXN1), Strip(H_TXN2), H_BAD, H_TXN1_W, H_TXN2_W, H_BOTH,
                         H_BOTH_W, H_ZERO, H_ZERO_W, H_DATE, H_DATE_W, H_NONE, H_NONE_W}
      [] b = "UNION_BANK" ->
           Strip(l) \in {U_HDRTXN, U_TXN_S, U_TXN_M, U_BAD, S_TXN, U_TXN_S_W, U_TXN_M_W,
                         S_TXN_W, S_FEE, S_FEE_W, U_TXN_UP, U_TXN_UP_W, U_TXN_MT}

\* config.get('transaction_start_pattern'): every registered layout has one
HasStartPattern(b) == b \in {"SBI", "HDFC", "UNION_BANK"}

(***************************************************************************)
(* BankStatementParser.detect_bank                                         *)
(***************************************************************************)
DetectWindow == 10

\* a look-ahead that also reaches the 10th line after the header
found_start_inclusive(b, lines, i) ==
    \E j \in (i + 1)..Min(i + DetectWindow, Len(lines)) : StartSearch(b, lines[j])

\* for j in range(i + 1, min(i + 10, len(lines))): start_regex.search(lines[j])
\* (i is the header line's 1-based index here)
found_start(b, lines, i) ==
    \E j \in (i + 1)..Min(i + DetectWindow - 1, Len(lines)) : StartSearch(b, lines[j])

NameFound(b, lines) == \E k \in 1..Len(lines) : NameSearch(b, lines[k])

HeaderConfirmed(b, lines) ==
    \E i \in 1..Len(lines) :
        /\ HeaderSearch(b, Collapse(lines[i]))
        /\ (HasStartPattern(b) => found_start(b, lines, i))

\* the first key of BANKS, in registry order, that satisfies P
FirstBank(P(_)) ==
    LET hits == {k \in 1..Len(BANKS) : P(BANKS[k])}
    IN  IF hits = {} THEN None
        ELSE BANKS[CHOOSE k \in hits : \A m \in hits : k <= m]

\* a detection that tries the header patterns before the bank names
detect_bank_header_first(lines) ==
    LET byName(b) == NameFound(b, lines)
        byHeader(b) == HeaderConfirmed(b, lines)
    IN  IF lines = <<>> THEN None
        ELSE IF FirstBank(byHeader) # None THEN FirstBank(byHeader)
        ELSE FirstBank(byName)

detect_bank(lines) ==
    LET byName(b) == NameFound(b, lines)
        byHeader(b) == HeaderConfirmed(b, lines)
    IN  IF lines = <<>> THEN None
        ELSE IF FirstBank(byName) # None THEN FirstBank(byName)
        ELSE FirstBank(byHeader)

(***************************************************************************)
(* The regular expressions of the line scan, on stripped lines.            *)
(***************************************************************************)
\* any(re.search(p, line, re.IGNORECASE) for p in stop_patterns)
StopSearch(s) == s \in {H_FOOT_ABS, H_FOOT_EXC, U_FOOT_ABS, U_FOOT_EXC, S_FOOT}

NoMatch == <<>>         \* a match object that is None: no groups

\* HDFC 'transaction_pattern': the groups of transaction_re.match(s)
HdfcGroups(s) ==
    CASE s = Strip(H_TXN1) ->
           <<"01/04/23", "UPI-SHOP", "0000123", "01/04/23", "100.00", "", "900.00">>
      [] s = Strip(H_TXN2) ->
           <<"02/04/23", "NEFT SALARY", "N456", "02/04/23", "", "5,000.00", "5,900.00">>
      [] s = H_TXN1_W ->
           <<"01/04/23", "UPI-SHOP", "0000123", "01/04/23", "100.00", "", "900.00">>
      [] s = H_TXN2_W ->
           <<"02/04/23", "NEFT SALARY", "N456", "02/04/23", "5,000.00", "", "5,900.00">>
      [] s \in {H_BOTH, H_BOTH_W} ->
           <<"01/04/23", "TRANSFER", "0000123", "01/04/23", "100.00", "5,000.00", "5,900.00">>
      [] s \in {H_ZERO, H_ZERO_W} ->
           <<"02/04/23", "INTEREST", "N456", "02/04/23", "0.00", "5,000.00", "5,900.00">>
      [] s \in {H_DATE, H_DATE_W} ->
           <<"31/02/23", "UPI-SHOP", "0000123", "31/02/23", "100.00", "", "900.00">>
      [] s \in {H_NONE, H_NONE_W} ->
           <<"01/04/23", "CHARGES", "0000123", "01/04/23", "", "", "900.00">>
      [] OTHER -> NoMatch

\* HDFC 'narration_continuation_pattern' (compiled without IGNORECASE):
\* a negative look-ahead, so it accepts every line that does not open with
\* one of the listed words, the empty line included
NarrationContMatch(s) ==
    s \notin {H_NAME, H_HDR, Strip(H_TXN1), Strip(H_TXN2), H_BAD, H_FOOT_EXC, H_NOISE,
               H_TXN1_W, H_TXN2_W, H_BOTH, H_BOTH_W, H_ZERO, H_ZERO_W, H_DATE, H_DATE_W,
               H_NONE, H_NONE_W}

\* UNION_BANK 'transaction_pattern_same_line'
UnionSameGroups(s) ==
    CASE s = U_TXN_S -> <<"1", "01/04/2023", "S12345", "UPI/SHOP", "100.00 (Dr)", "900.00 (Cr)">>
      [] s = U_HDRTXN ->
           <<"1", "01/04/2023", "T1",
             "S.No Date Transaction Id Remarks Amount (Rs.) Balance (Rs.)",
             "100.00 (Dr)", "900.00 (Cr)">>
      [] s = S_TXN -> <<"1", "01/04/2023", "T123", "ATM WDL", "100.00 (Dr)", "900.00 (Cr)">>
      [] s = U_TXN_S_W ->
           <<"1", "01/04/2023", "S12345", "UPI/SHOP", "100.00 (Dr)", "900.00 (Cr)">>
      [] s = S_TXN_W -> <<"1", "01/04/2023", "T123", "ATM WDL", "100.00 (Dr)", "900.00 (Cr)">>
      [] s \in {S_FEE, S_FEE_W} ->
           <<"1", "01/04/2023", "T123", "FEE 1.00 (Dr)", "100.00 (Dr)", "900.00 (Cr)">>
      [] s \in {U_TXN_UP, U_TXN_UP_W} ->
           <<"2", "02/04/2023", "S67890", "CARD", "100.00 (DR)", "800.00 (cr)">>
      [] OTHER -> NoMatch

\* UNION_BANK 'transaction_pattern_multi_line'; group 6 is the optional
\* trailing marker
UnionMultiGroups(s) ==
    CASE s = U_TXN_M -> <<"2", "02/04/2023", "S67890", "NEFT/ACME", "5,000.00 (Cr)", None>>
      [] s = U_TXN_S ->
           <<"1", "01/04/2023", "S12345", "UPI/SHOP 100.00 (Dr)", "900.00 (Cr)", None>>
      [] s = U_HDRTXN ->
           <<"1", "01/04/2023", "T1",
             "S.No Date Transaction Id Remarks Amount (Rs.) Balance (Rs.) 100.00 (Dr)",
             "900.00 (Cr)", None>>
      [] s = S_TXN -> <<"1", "01/04/2023", "T123", "ATM WDL 100.00 (Dr)", "900.00 (Cr)", None>>
      [] s = U_TXN_M_W -> <<"2", "02/04/2023", "S67890", "NEFT/ACME", "5,000.00 (Cr)", None>>
      [] s = U_TXN_S_W ->
           <<"1", "01/04/2023", "S12345", "UPI/SHOP  100.00 (Dr)", "900.00 (Cr)", None>>
      [] s = S_TXN_W ->
           <<"1", "01/04/2023", "T123", "ATM WDL  100.00 (Dr)", "900.00 (Cr)", None>>
      [] s = S_FEE ->
           <<"1", "01/04/2023", "T123", "FEE 1.00 (Dr) 100.00 (Dr)", "900.00 (Cr)", None>>
      [] s = S_FEE_W ->
           <<"1", "01/04/2023", "T123", "FEE 1.00 (Dr)  100.00 (Dr)", "900.00 (Cr)", None>>
      [] s = U_TXN_UP ->
           <<"2", "02/04/2023", "S67890", "CARD 100.00 (DR)", "800.00 (cr)", None>>
      [] s = U_TXN_MT ->
           <<"2", "02/04/2023", "S67890", "NEFT/ACME", "5,000.00 (Cr)", " (Cr)">>
      [] s = U_TXN_UP_W ->
           <<"2", "02/04/2023", "S67890", "CARD  100.00 (DR)", "800.00 (cr)", None>>
      [] OTHER -> NoMatch

\* UNION_BANK 'multi_line_balance_pattern': group 1
UnionBalanceGroup(s) ==
    CASE s = U_BAL -> "5,900.00 (Cr)"
      [] OTHER -> None

\* a remarks continuation pattern without its balance alternative
RemarksContMatch_balance(s) ==
    s \in {H_NAME, H_HDR, Strip(H_TXN1), Strip(H_TXN2), H_BAD, H_CONT, H_FOOT_ABS,
           H_FOOT_EXC, H_NOISE, U_CONT, U_FOOT_ABS, S_NAME, S_NAME_IN, S_NAME_WORD,
           S_BAD, S_CONT, H_TXN1_W, H_TXN2_W, H_BOTH, H_BOTH_W, H_ZERO, H_ZERO_W,
           H_DATE, H_DATE_W, H_NONE, H_NONE_W, U_BAL}

\* UNION_BANK 'remarks_continuation_pattern': a negative look-ahead followed
\* by .+, so the empty line is not accepted
RemarksContMatch(s) ==
    s \in {H_NAME, H_HDR, Strip(H_TXN1), Strip(H_TXN2), H_BAD, H_CONT, H_FOOT_ABS,
           H_FOOT_EXC, H_NOISE, U_CONT, U_FOOT_ABS, S_NAME, S_NAME_IN, S_NAME_WORD,
           S_BAD, S_CONT, H_TXN1_W, H_TXN2_W, H_BOTH, H_BOTH_W, H_ZERO, H_ZERO_W,
           H_DATE, H_DATE_W, H_NONE, H_NONE_W}

\* SBI 'transaction_pattern'
SbiGroups(s) ==
    CASE s = S_TXN -> <<"1", "01/04/2023", "T123", "ATM WDL", "100.00 (Dr)", "900.00 (Cr)">>
      [] s = U_TXN_S -> <<"1", "01/04/2023", "S12345", "UPI/SHOP", "100.00 (Dr)", "900.00 (Cr)">>
      [] s = U_HDRTXN ->
           <<"1", "01/04/2023", "T1",
             "S.No Date Transaction Id Remarks Amount (Rs.) Balance (Rs.)",
             "100.00 (Dr)", "900.00 (Cr)">>
      [] s = S_TXN_W -> <<"1", "01/04/2023", "T123", "ATM WDL", "100.00 (Dr)", "900.00 (Cr)">>
      [] s = U_TXN_S_W ->
           <<"1", "01/04/2023", "S12345", "UPI/SHOP", "100.00 (Dr)", "900.00 (Cr)">>
      [] s \in {S_FEE, S_FEE_W} ->
           <<"1", "01/04/2023", "T123", "FEE", "1.00 (Dr)", "100.00 (Dr)">>
      [] s \in {U_TXN_UP, U_TXN_UP_W} ->
           <<"2", "02/04/2023", "S67890", "CARD", "100.00 (DR)", "800.00 (cr)">>
      [] OTHER -> NoMatch

(***************************************************************************)
(* 'transaction_mapping' (keys in insertion order, with the group index)   *)
(* and 'column_mapping' of each layout.                                    *)
(***************************************************************************)
NoIndex == 0            \* a mapping entry whose group index is None

HdfcMapping ==
    << <<"date", 1>>, <<"narration", 2>>, <<"ref_no", 3>>, <<"value_dt", 4>>,
       <<"withdrawal", 5>>, <<"deposit", 6>>, <<"balance", 7>> >>

SameLineMapping ==
    << <<"sr_no", 1>>, <<"date", 2>>, <<"transaction_id", 3>>, <<"remarks", 4>>,
       <<"amount", 5>>, <<"balance", 6>> >>

MultiLineMapping ==
    << <<"sr_no", 1>>, <<"date", 2>>, <<"transaction_id", 3>>, <<"remarks", 4>>,
       <<"amount", 5>>, <<"balance", NoIndex>> >>

ColumnMapping(b, col) ==
    CASE col = "sr_no" -> "S.No"
      [] col = "date" -> "Date"
      [] col = "transaction_id" -> "Transaction Id"
      [] col = "remarks" -> "Remarks"
      [] col = "amount" -> "Amount(Rs.)"
      [] col = "balance" ->
           (CASE b = "SBI" -> "Balance"
              [] b = "HDFC" -> "Closing Balance"
              [] b = "UNION_BANK" -> "Balance(Rs.)")
      [] col = "narration" -> "Narration"
      [] col = "ref_no" -> "Chq./Ref.No."
      [] col = "value_dt" -> "Value Dt"
      [] col = "withdrawal" -> "Withdrawal Amt."
      [] col = "deposit" -> "Deposit Amt."

\* the 1-based position of key col in mapping
KeyIndex(mapping, col) == CHOOSE k \in 1..Len(mapping) : mapping[k][1] = col

\* " ".join(parts)
RECURSIVE Join(_)
Join(parts) ==
    IF parts = <<>> THEN ""
    ELSE IF Len(parts) = 1 THEN parts[1]
    ELSE parts[1] \o " " \o Join(Tail(parts))

NonEmpty(parts) == SelectSeq(parts, LAMBDA p : p # "")

(***************************************************************************)
(* The look-ahead loops of _parse_transactions: the stripped lines that    *)
(* follow a matched transaction line and are absorbed into it.             *)
(***************************************************************************)
\* HDFC: while j < len(lines): break on a blank line, a start line or a
\* line that narration_cont_re rejects
RECURSIVE HdfcContinuation(_, _)
HdfcContinuation(lines, j) ==
    IF j > Len(lines) THEN <<>>
    ELSE LET next_line == Strip(lines[j])
         IN  IF \/ next_line = ""
                \/ StartSearch("HDFC", lines[j])
                \/ ~NarrationContMatch(next_line)
             THEN <<>>
             ELSE <<next_line>> \o HdfcContinuation(lines, j + 1)

\* UNION_BANK, same-line variant: as HDFC, and a bare balance line breaks
RECURSIVE UnionSameContinuation(_, _)
UnionSameContinuation(lines, j) ==
    IF j > Len(lines) THEN <<>>
    ELSE LET next_line == Strip(lines[j])
         IN  IF \/ next_line = ""
                \/ StartSearch("UNION_BANK", lines[j])
                \/ UnionBalanceGroup(next_line) # None
                \/ ~RemarksContMatch(next_line)
             THEN <<>>
             ELSE <<next_line>> \o UnionSameContinuation(lines, j + 1)

\* UNION_BANK, multi-line variant: the first bare balance line is taken as
\* the balance, remarks continuation lines are appended, anything else breaks
RECURSIVE UnionMultiLookahead(_, _, _)
UnionMultiLookahead(lines, j, balance_found_on_next) ==
    IF j > Len(lines)
    THEN [remarks |-> <<>>, balance_value |-> None, consumed_lines |-> 0]
    ELSE LET next_line == Strip(lines[j])
         IN  IF ~balance_found_on_next /\ UnionBalanceGroup(next_line) # None
             THEN LET rest == UnionMultiLookahead(lines, j + 1, TRUE)
                  IN  [remarks |-> rest.remarks,
                       balance_value |-> UnionBalanceGroup(next_line),
                       consumed_lines |-> rest.consumed_lines + 1]
             ELSE IF RemarksContMatch(next_line)
             THEN LET rest == UnionMultiLookahead(lines, j + 1, balance_found_on_next)
                  IN  [remarks |-> <<next_line>> \o rest.remarks,
                       balance_value |-> rest.balance_value,
                       consumed_lines |-> rest.consumed_lines + 1]
             ELSE [remarks |-> <<>>, balance_value |-> None, consumed_lines |-> 0]

\* [part1.strip()] if part1 else []
FirstPart(part1) == IF part1 # "" THEN <<Strip(part1)>> ELSE <<>>

NoTransaction ==
    [match_found |-> FALSE, data |-> <<>>, mapping |-> <<>>, consumed_lines |-> 0]

\* Transaction matching of one loop iteration at line i, per layout
MatchHdfc(lines, i) ==
    LET data == HdfcGroups(Strip(lines[i]))
        cont == HdfcContinuation(lines, i + 1)
        full_narration == Join(FirstPart(data[2]) \o cont)
    IN  IF data = NoMatch THEN NoTransaction
        ELSE [match_found |-> TRUE,
              data |-> [data EXCEPT ![2] = full_narration],
              mapping |-> HdfcMapping,
              consumed_lines |-> Len(cont)]

\* Union Bank matching that tries the multi-line alternative first
MatchUnion_multi_first(lines, i) ==
    LET same == UnionSameGroups(Strip(lines[i]))
        multi == UnionMultiGroups(Strip(lines[i]))
        cont == UnionSameContinuation(lines, i + 1)
        look == UnionMultiLookahead(lines, i + 1, FALSE)
    IN  IF multi # NoMatch
        THEN [match_found |-> TRUE,
              data |-> [multi EXCEPT
                          ![4] = Join(NonEmpty(FirstPart(multi[4]) \o look.remarks)),
                          ![KeyIndex(MultiLineMapping, "balance")] = look.balance_value],
              mapping |-> MultiLineMapping,
              consumed_lines |-> look.consumed_lines]
        ELSE IF same # NoMatch
        THEN [match_found |-> TRUE,
              data |-> [same EXCEPT ![4] = Join(NonEmpty(FirstPart(same[4]) \o cont))],
              mapping |-> SameLineMapping,
              consumed_lines |-> Len(cont)]
        ELSE NoTransaction

\* a match that leaves the groups of the multi-line pattern as captured
MatchUnion_keeps_marker(lines, i) ==
    LET same == UnionSameGroups(Strip(lines[i]))
        multi == UnionMultiGroups(Strip(lines[i]))
        cont == UnionSameContinuation(lines, i + 1)
        look == UnionMultiLookahead(lines, i + 1, FALSE)
    IN  IF same # NoMatch
        THEN [match_found |-> TRUE,
              data |-> [same EXCEPT ![4] = Join(NonEmpty(FirstPart(same[4]) \o cont))],
              mapping |-> SameLineMapping,
              consumed_lines |-> Len(cont)]
        ELSE IF multi # NoMatch
        THEN [match_found |-> TRUE,
              data |-> [multi EXCEPT
                          ![4] = Join(NonEmpty(FirstPart(multi[4]) \o look.remarks)),
                          ![KeyIndex(MultiLineMapping, "balance")] =
                              IF look.balance_value # None THEN look.balance_value
                              ELSE multi[KeyIndex(MultiLineMapping, "balance")]],
              mapping |-> MultiLineMapping,
              consumed_lines |-> look.consumed_lines]
        ELSE NoTransaction

MatchUnion(lines, i) ==
    LET same == UnionSameGroups(Strip(lines[i]))
        multi == UnionMultiGroups(Strip(lines[i]))
        cont == UnionSameContinuation(lines, i + 1)
        look == UnionMultiLookahead(lines, i + 1, FALSE)
    IN  IF same # NoMatch
        THEN [match_found |-> TRUE,
              data |-> [same EXCEPT ![4] = Join(NonEmpty(FirstPart(same[4]) \o cont))],
              mapping |-> SameLineMapping,
              consumed_lines |-> Len(cont)]
        ELSE IF multi # NoMatch
        THEN [match_found |-> TRUE,
              data |-> [multi EXCEPT
                          ![4] = Join(NonEmpty(FirstPart(multi[4]) \o look.remarks)),
                          ![KeyIndex(MultiLineMapping, "balance")] = look.balance_value],
              mapping |-> MultiLineMapping,
              consumed_lines |-> look.consumed_lines]
        ELSE NoTransaction

MatchGeneric(lines, i) ==
    LET data == SbiGroups(Strip(lines[i]))
    IN  IF data = NoMatch THEN NoTransaction
        ELSE [match_found |-> TRUE, data |-> data, mapping |-> SameLineMapping,
              consumed_lines |-> 0]

MatchTransaction(b, lines, i) ==
    CASE b = "HDFC" -> MatchHdfc(lines, i)
      [] b = "UNION_BANK" -> MatchUnion(lines, i)
      [] OTHER -> MatchGeneric(lines, i)

\* Process Matched Data: the dict current_transaction, column name -> value
CurrentTransaction(b, data, mapping) ==
    [name \in {ColumnMapping(b, mapping[k][1]) : k \in 1..Len(mapping)} |->
        LET k == CHOOSE k \in 1..Len(mapping) : ColumnMapping(b, mapping[k][1]) = name
            col == mapping[k][1]
            map_index == mapping[k][2]
            balance_idx_in_map == KeyIndex(mapping, "balance")
            value ==
                IF map_index # NoIndex
                THEN (IF map_index <= Len(data) THEN data[map_index] ELSE None)
                ELSE IF col = "balance" /\ b = "UNION_BANK"
                THEN (IF balance_idx_in_map <= Len(data)
                      THEN data[balance_idx_in_map] ELSE None)
                ELSE None
        IN  IF value = None THEN None ELSE Strip(value)]

(***************************************************************************)
(* Table assembly: the post-processing of _parse_transactions.             *)
(***************************************************************************)
\* pd.DataFrame(): no columns, no rows
EmptyDataFrame == [kind |-> "DataFrame", columns |-> <<>>, rows |-> <<>>]

\* df.empty
IsEmpty(frame) == frame.rows = <<>> \/ frame.columns = <<>>

\* the columns of pd.DataFrame(transactions): the keys of the first dict,
\* then the keys later dicts add, in insertion order
RawColumns(b, mapping) == [k \in 1..Len(mapping) |-> ColumnMapping(b, mapping[k][1])]

\* floats are held in hundredths; np.nan and pd.NaT hold nothing
Float(n) == <<n>>
NaN == <<>>
NaT == <<>>

\* _clean_amount: drop commas and every character that is not a digit or a
\* dot, then float(); nan for None, "" and "."
clean_amount(amount_str) ==
    CASE amount_str \in {"0.00"} -> Float(0)
      [] amount_str \in {"1.00 (Dr)"} -> Float(100)
      [] amount_str \in {"100.00", "100.00 (Dr)", "100.00 (DR)"} -> Float(10000)
      [] amount_str \in {"800.00 (cr)"} -> Float(80000)
      [] amount_str \in {"900.00", "900.00 (Cr)"} -> Float(90000)
      [] amount_str \in {"5,000.00", "5,000.00 (Cr)"} -> Float(500000)
      [] amount_str \in {"5,900.00", "5,900.00 (Cr)"} -> Float(590000)
      [] OTHER -> NaN

\* an extraction that hands on the marker as it is written
extract_amount_type_as_written(amount_str) ==
    IF amount_str = None THEN <<NaN, None>>
    ELSE <<clean_amount(amount_str),
           CASE amount_str \in {"1.00 (Dr)", "100.00 (Dr)"} -> "Dr"
             [] amount_str \in {"100.00 (DR)"} -> "DR"
             [] amount_str \in {"900.00 (Cr)", "5,000.00 (Cr)", "5,900.00 (Cr)"} -> "Cr"
             [] amount_str \in {"800.00 (cr)"} -> "cr"
             [] OTHER -> None>>

\* extract_amount_type: the value and 'Dr', 'Cr' or None; the tests
\* '(Dr)' in amount_str and '(Cr)' in amount_str tell upper from lower case
extract_amount_type(amount_str) ==
    IF amount_str = None THEN <<NaN, None>>
    ELSE <<clean_amount(amount_str),
           CASE amount_str \in {"1.00 (Dr)", "100.00 (Dr)"} -> "Dr"
             [] amount_str \in {"900.00 (Cr)", "5,000.00 (Cr)", "5,900.00 (Cr)"} -> "Cr"
             [] OTHER -> None>>

\* f"{x:.2f}"
Fixed2(x) ==
    CASE x = Float(10000) -> "100.00"
      [] x = Float(90000) -> "900.00"
      [] x = Float(500000) -> "5000.00"
      [] x = Float(590000) -> "5900.00"

\* pd.to_datetime(..., errors='coerce', format=date_format): <<year, month, day>>
to_datetime(s, date_format) ==
    CASE date_format = "%d/%m/%y" /\ s = "01/04/23" -> <<2023, 4, 1>>
      [] date_format = "%d/%m/%y" /\ s = "02/04/23" -> <<2023, 4, 2>>
      [] date_format = "%d/%m/%Y" /\ s = "01/04/2023" -> <<2023, 4, 1>>
      [] date_format = "%d/%m/%Y" /\ s = "02/04/2023" -> <<2023, 4, 2>>
      [] OTHER -> NaT

DateFormat(b) == IF b = "HDFC" THEN "%d/%m/%y" ELSE "%d/%m/%Y"

\* the keys of the layout's 'column_mapping'
ColumnKeys(b) ==
    IF b = "HDFC"
    THEN {"date", "narration", "ref_no", "value_dt", "withdrawal", "deposit", "balance"}
    ELSE {"sr_no", "date", "transaction_id", "remarks", "amount", "balance"}

\* f'{balance_col_orig}_Num'
FinalBalanceColumn(b) == ColumnMapping(b, "balance") \o "_Num"

\* a conversion that looks at the deposit before the withdrawal
ConvertHdfc_deposit_first(row) ==
    LET withdrawal == clean_amount(row["Withdrawal Amt."])
        deposit == clean_amount(row["Deposit Amt."])
        debit == withdrawal # NaN /\ withdrawal # Float(0)
        credit == deposit # NaN /\ deposit # Float(0)
        Amount_Num == IF credit THEN deposit ELSE withdrawal
        Type == IF credit THEN "Cr" ELSE IF debit THEN "Dr" ELSE None
    IN  [c \in DOMAIN row \cup {"Closing Balance_Num", "Amount_Num", "Type", "Amount(Rs.)"} |->
            CASE c = "Withdrawal Amt." -> withdrawal
              [] c = "Deposit Amt." -> deposit
              [] c = "Closing Balance_Num" -> clean_amount(row["Closing Balance"])
              [] c = "Amount_Num" -> Amount_Num
              [] c = "Type" -> Type
              [] c = "Amount(Rs.)" ->
                   (IF Amount_Num # NaN /\ Type # None
                    THEN Fixed2(Amount_Num) \o " (" \o Type \o ")"
                    ELSE None)
              [] c = "Date" -> to_datetime(row["Date"], DateFormat("HDFC"))
              [] OTHER -> row[c]]

\* Data Cleaning and Type Conversion of one HDFC row
ConvertHdfc(row) ==
    LET withdrawal == clean_amount(row["Withdrawal Amt."])
        deposit == clean_amount(row["Deposit Amt."])
        debit == withdrawal # NaN /\ withdrawal # Float(0)
        credit == deposit # NaN /\ deposit # Float(0)
        Amount_Num == IF debit THEN withdrawal ELSE deposit
        Type == IF debit THEN "Dr" ELSE IF credit THEN "Cr" ELSE None
    IN  [c \in DOMAIN row \cup {"Closing Balance_Num", "Amount_Num", "Type", "Amount(Rs.)"} |->
            CASE c = "Withdrawal Amt." -> withdrawal
              [] c = "Deposit Amt." -> deposit
              [] c = "Closing Balance_Num" -> clean_amount(row["Closing Balance"])
              [] c = "Amount_Num" -> Amount_Num
              [] c = "Type" -> Type
              [] c = "Amount(Rs.)" ->
                   (IF Amount_Num # NaN /\ Type # None
                    THEN Fixed2(Amount_Num) \o " (" \o Type \o ")"
                    ELSE None)
              [] c = "Date" -> to_datetime(row["Date"], DateFormat("HDFC"))
              [] OTHER -> row[c]]

\* Data Cleaning and Type Conversion of one Union Bank or SBI row
ConvertAmount(b, row) ==
    LET extracted == extract_amount_type(row["Amount(Rs.)"])
    IN  [c \in DOMAIN row \cup {"Amount_Num", "Type", FinalBalanceColumn(b)} |->
            CASE c = "Amount_Num" -> extracted[1]
              [] c = "Type" -> extracted[2]
              [] c = FinalBalanceColumn(b) -> clean_amount(row[ColumnMapping(b, "balance")])
              [] c = "Date" -> to_datetime(row["Date"], DateFormat(b))
              [] OTHER -> row[c]]

\* df.columns after the conversion: new columns are added at the end
ConvertedColumns(b) ==
    IF b = "HDFC"
    THEN RawColumns(b, HdfcMapping) \o <<"Closing Balance_Num", "Amount_Num", "Type", "Amount(Rs.)">>
    ELSE RawColumns(b, SameLineMapping) \o <<"Amount_Num", "Type", FinalBalanceColumn(b)>>

Range(s) == {s[k] : k \in 1..Len(s)}

core_keys ==
    <<"transaction_id", "remarks", "narration", "ref_no", "value_dt",
      "withdrawal", "deposit", "amount", "balance">>

\* desired_cols after the loop over the first n core keys
RECURSIVE CoreColumns(_, _, _)
CoreColumns(b, columns, n) ==
    IF n = 0
    THEN (IF "Date" \in Range(columns) THEN <<"Date">> ELSE <<>>)
    ELSE LET desired_cols == CoreColumns(b, columns, n - 1)
             key == core_keys[n]
         IN  IF /\ key \in ColumnKeys(b)
                /\ ColumnMapping(b, key) \in Range(columns)
                /\ ColumnMapping(b, key) \notin Range(desired_cols)
             THEN Append(desired_cols, ColumnMapping(b, key))
             ELSE desired_cols

\* Reorder columns: final_cols
FinalColumns(b) ==
    LET columns == ConvertedColumns(b)
        core == CoreColumns(b, columns, Len(core_keys))
        amount == IF "Amount(Rs.)" \in Range(columns) /\ "Amount(Rs.)" \notin Range(core)
                  THEN <<"Amount(Rs.)">> ELSE <<>>
        balance == IF FinalBalanceColumn(b) \in Range(columns)
                   THEN <<FinalBalanceColumn(b)>> ELSE <<>>
        number == IF "Amount_Num" \in Range(columns) THEN <<"Amount_Num">> ELSE <<>>
        type == IF "Type" \in Range(columns) THEN <<"Type">> ELSE <<>>
        desired_cols == core \o amount \o balance \o number \o type
        remaining_cols == SelectSeq(columns, LAMBDA col : col \notin Range(desired_cols))
    IN  desired_cols \o remaining_cols

\* a frame that keeps only the rows whose date converts
BuildDataFrame_dropna(b, rows) ==
    LET kept == SelectSeq(rows, LAMBDA row : to_datetime(row["Date"], DateFormat(b)) # NaT)
    IN  IF kept = <<>> THEN EmptyDataFrame
        ELSE [kind |-> "DataFrame",
              columns |-> FinalColumns(b),
              rows |-> [r \in 1..Len(kept) |->
                          IF b = "HDFC" THEN ConvertHdfc(kept[r])
                          ELSE ConvertAmount(b, kept[r])]]

\* Post-Processing and DataFrame Creation
BuildDataFrame(b, rows) ==
    IF rows = <<>> THEN EmptyDataFrame
    ELSE [kind |-> "DataFrame",
          columns |-> FinalColumns(b),
          rows |-> [r \in 1..Len(rows) |->
                      IF b = "HDFC" THEN ConvertHdfc(rows[r]) ELSE ConvertAmount(b, rows[r])]]

(***************************************************************************)
(* Column names as parse_bank_statement cleans them.                       *)
(***************************************************************************)
\* re.sub(r'[ /.\(\)]+', '_'), re.sub(r'_+', '_'), strip('_')
CleanName(col) ==
    CASE col = "S.No" -> "S_No"
      [] col = "Transaction Id" -> "Transaction_Id"
      [] col = "Amount(Rs.)" -> "Amount_Rs"
      [] col = "Balance(Rs.)" -> "Balance_Rs"
      [] col = "Balance(Rs.)_Num" -> "Balance_Rs_Num"
      [] col = "Closing Balance" -> "Closing_Balance"
      [] col = "Closing Balance_Num" -> "Closing_Balance_Num"
      [] col = "Chq./Ref.No." -> "Chq_Ref_No"
      [] col = "Value Dt" -> "Value_Dt"
      [] col = "Withdrawal Amt." -> "Withdrawal_Amt"
      [] col = "Deposit Amt." -> "Deposit_Amt"
      [] col \in {"Ref No", "Ref.No."} -> "Ref_No"
      [] col = "Ref No (1)" -> "Ref_No_1"
      [] OTHER -> col

Digits == <<"1", "2", "3", "4", "5", "6", "7", "8", "9">>

\* new_col, or new_col_1 when new_col is taken
Unused_once(new_col, taken) ==
    IF new_col \notin taken THEN new_col ELSE new_col \o "_" \o Digits[1]

\* the first of new_col, new_col_1, new_col_2, ... that is not taken
Unused(new_col, taken) ==
    IF new_col \notin taken THEN new_col
    ELSE LET count == CHOOSE c \in 1..Len(Digits) :
                          /\ (new_col \o "_" \o Digits[c]) \notin taken
                          /\ \A d \in 1..(c - 1) : (new_col \o "_" \o Digits[d]) \in taken
         IN  new_col \o "_" \o Digits[count]

\* cleaned_columns, as the sequence of new names of the first n columns
RECURSIVE CleanedColumns(_, _)
CleanedColumns(columns, n) ==
    IF n = 0 THEN <<>>
    ELSE LET cleaned == CleanedColumns(columns, n - 1)
         IN  Append(cleaned, Unused(CleanName(columns[n]), Range(cleaned)))

\* parsed_df.rename(columns=cleaned_columns, inplace=True)
Rename(frame) ==
    LET cleaned == CleanedColumns(frame.columns, Len(frame.columns))
        Old(c) == frame.columns[CHOOSE k \in 1..Len(cleaned) : cleaned[k] = c]
    IN  [kind |-> "DataFrame",
         columns |-> cleaned,
         rows |-> [r \in 1..Len(frame.rows) |->
                     [c \in Range(cleaned) |-> frame.rows[r][Old(c)]]]]

\* what parse_bank_statement does with the frame parse() returned
CleanColumns(frame) == IF IsEmpty(frame) THEN frame ELSE Rename(frame)

(***************************************************************************)
(* State.                                                                  *)
(***************************************************************************)
VARIABLES
    pdf_exists,              \* os.path.exists(pdf_path)
    pdf_loads,               \* pdftotext.PDF(f) succeeds on the file
    pdf_text,                \* the lines of "\n".join(pdf)
    pc,                      \* where parse_bank_statement is
    text,                    \* parser.text, as lines
    detected_bank,           \* parser.detected_bank
    bank_config,             \* parser.bank_config: None or the layout's name
    i,                       \* the scan's line index (1-based)
    transactions,            \* the scan's list of row dicts
    blocks,                  \* per row: its transaction line and absorbed lines
    in_transaction_section,
    header_found,
    skipped_lines_count,
    df,                      \* what _parse_transactions returned to parse()
    parsed_df,               \* what parser.parse() returned
    ret,                     \* what parse_bank_statement returned
    temp_file,               \* temp_files/uploaded_statement.pdf: its lines, if any
    caller_pc,               \* per session of app.py: where its run is
    uploaded,                \* per session: the lines of uploaded_file
    results,                 \* per session: parsed_df of its run
    model_file,              \* MODEL_FILE: the saved pipeline, if any
    trained,                 \* the last train_classifier call: outcome and data rows
    class_df                 \* the frame add_classification works on

vars == <<pdf_exists, pdf_loads, pdf_text, pc, text, detected_bank, bank_config, i,
          transactions, blocks, in_transaction_section, header_found,
          skipped_lines_count, df, parsed_df, ret, temp_file, caller_pc, uploaded,
          results, model_file, trained, class_df>>

scan_vars == <<i, transactions, blocks, in_transaction_section, header_found,
               skipped_lines_count>>
file_vars == <<pdf_exists, pdf_loads, pdf_text>>
app_vars == <<temp_file, caller_pc, uploaded, results>>
classifier_vars == <<model_file, trained, class_df>>
\* what no step of parse_bank_statement changes
outer_vars == <<app_vars, classifier_vars, file_vars>>
parser_vars ==
    <<file_vars, pc, text, detected_bank, bank_config, scan_vars, df, parsed_df, ret>>

NotYet == [kind |-> "NotYet"]      \* no value has been returned so far

Callers == {1, 2}                  \* two sessions of the application
NoFile == <<>>                     \* os.path.exists of the path is False

\* no session has uploaded a file
InitApp ==
    /\ temp_file = NoFile
    /\ caller_pc = [c \in Callers |-> "idle"]
    /\ uploaded = [c \in Callers |-> <<>>]
    /\ results = [c \in Callers |-> NotYet]

\* no model has been trained and no frame is being classified
InitClassifier ==
    /\ model_file = NoFile
    /\ trained = [outcome |-> "never", rows |-> 0]
    /\ class_df = NotYet

(***************************************************************************)
(* Statement texts the model is run on.                                    *)
(***************************************************************************)
MaxBody == 3

NameLine(f) ==
    CASE f = "SBI" -> S_NAME [] f = "HDFC" -> H_NAME [] f = "UNION_BANK" -> U_NAME

TxnLine(f) ==
    CASE f = "SBI" -> S_TXN [] f = "HDFC" -> H_TXN1 [] f = "UNION_BANK" -> U_TXN_S

HeaderLines(f) ==
    CASE f = "SBI" -> {S_HDR} [] f = "HDFC" -> {H_HDR} [] f = "UNION_BANK" -> {U_HDR, U_HDRTXN}

BodyLines(f) ==
    CASE f = "SBI" -> {S_TXN, S_BAD, S_CONT, S_FOOT, BLANK}
      [] f = "HDFC" -> {H_TXN1, H_TXN2, H_BAD, H_CONT, H_FOOT_ABS, H_FOOT_EXC, H_NOISE, BLANK}
      [] f = "UNION_BANK" -> {U_TXN_S, U_TXN_M, U_BAL, U_BAD, U_CONT, U_FOOT_ABS,
                              U_FOOT_EXC, U_NOISE, BLANK}

\* what precedes the header: nothing, the bank's name, a transaction line
Preambles(f) == {<<>>, <<NameLine(f)>>, <<TxnLine(f)>>}

\* t is a preamble, at most one header line and at most MaxBody body lines
\* of one layout
Statements(t) ==
    \E f \in BankKeys : \E pre \in Preambles(f) :
        \E hdr \in {<<>>} \cup {<<h>> : h \in HeaderLines(f)} :
            \E k \in 0..MaxBody : \E body \in [1..k -> BodyLines(f)] :
                t = pre \o hdr \o body

\* parse_bank_statement is about to be called
InitParser ==
    /\ pc = "call"
    /\ text = <<>>
    /\ detected_bank = None
    /\ bank_config = None
    /\ i = 1
    /\ transactions = <<>>
    /\ blocks = <<>>
    /\ in_transaction_section = FALSE
    /\ header_found = FALSE
    /\ skipped_lines_count = 0
    /\ df = NotYet
    /\ parsed_df = NotYet
    /\ ret = NotYet

InitProgram == InitApp /\ InitClassifier /\ InitParser

\* no statement file is at hand
NoStatement == pdf_exists = FALSE /\ pdf_loads = FALSE /\ pdf_text = <<>>

\* a missing file has no content; a file that does not load yields no text
InitFile(Texts(_)) ==
    \/ pdf_exists = FALSE /\ pdf_loads = FALSE /\ pdf_text = <<>>
    \/ pdf_exists = TRUE /\ pdf_loads = FALSE /\ pdf_text = <<>>
    \/ pdf_exists = TRUE /\ pdf_loads = TRUE /\ Texts(pdf_text)

Init == InitFile(Statements) /\ InitProgram

(***************************************************************************)
(* parse_bank_statement, BankStatementParser.__init__ and parse            *)
(***************************************************************************)
\* _load_pdf: the text of the file, "" when loading raises (the ligature
\* replacement changes no sample line)
load_pdf == IF pdf_loads THEN pdf_text ELSE <<>>

\* if not os.path.exists(pdf_path): return pd.DataFrame()
FileMissing ==
    /\ pc = "call"
    /\ ~pdf_exists
    /\ ret' = EmptyDataFrame
    /\ pc' = "done"
    /\ UNCHANGED <<outer_vars, text, detected_bank, bank_config, scan_vars, df, parsed_df>>

\* parser = BankStatementParser(pdf_path)
Construct ==
    /\ pc = "call"
    /\ pdf_exists
    /\ text' = load_pdf
    /\ bank_config' = None
    /\ detected_bank' = None
    /\ pc' = "parse"
    /\ UNCHANGED <<outer_vars, scan_vars, df, parsed_df, ret>>

\* parse(): if not self.text: return pd.DataFrame()
ParseEmptyText ==
    /\ pc = "parse"
    /\ text = <<>>
    /\ parsed_df' = EmptyDataFrame
    /\ pc' = "returned"
    /\ UNCHANGED <<outer_vars, text, detected_bank, bank_config, scan_vars, df, ret>>

\* parse(): detect_bank() returns None: return pd.DataFrame()
DetectFails ==
    /\ pc = "parse"
    /\ text # <<>>
    /\ detect_bank(text) = None
    /\ detected_bank' = None
    /\ bank_config' = None
    /\ parsed_df' = EmptyDataFrame
    /\ pc' = "returned"
    /\ UNCHANGED <<outer_vars, text, scan_vars, df, ret>>

\* a detection that records the key of the layout and not the layout
DetectSucceeds_key_only ==
    /\ pc = "parse"
    /\ text # <<>>
    /\ detect_bank(text) # None
    /\ detected_bank' = detect_bank(text)
    /\ bank_config' = None
    /\ i' = 1
    /\ transactions' = <<>>
    /\ blocks' = <<>>
    /\ in_transaction_section' = FALSE
    /\ header_found' = FALSE
    /\ skipped_lines_count' = 0
    /\ pc' = "scan"
    /\ UNCHANGED <<outer_vars, text, df, parsed_df, ret>>

\* a scan that starts inside the transaction section
DetectSucceeds_in_section ==
    /\ pc = "parse"
    /\ text # <<>>
    /\ detect_bank(text) # None
    /\ detected_bank' = detect_bank(text)
    /\ bank_config' = BankName(detect_bank(text))
    /\ i' = 1
    /\ transactions' = <<>>
    /\ blocks' = <<>>
    /\ in_transaction_section' = TRUE
    /\ header_found' = FALSE
    /\ skipped_lines_count' = 0
    /\ pc' = "scan"
    /\ UNCHANGED <<outer_vars, text, df, parsed_df, ret>>

\* parse(): detect_bank() sets the layout; _parse_transactions starts
DetectSucceeds ==
    /\ pc = "parse"
    /\ text # <<>>
    /\ detect_bank(text) # None
    /\ detected_bank' = detect_bank(text)
    /\ bank_config' = BankName(detect_bank(text))
    /\ i' = 1
    /\ transactions' = <<>>
    /\ blocks' = <<>>
    /\ in_transaction_section' = FALSE
    /\ header_found' = FALSE
    /\ skipped_lines_count' = 0
    /\ pc' = "scan"
    /\ UNCHANGED <<outer_vars, text, df, parsed_df, ret>>

(***************************************************************************)
(* _parse_transactions: one action per kind of loop iteration.             *)
(***************************************************************************)
BlankAhead == 4

line == Strip(text[i])

\* if not header_found and header_pattern.search(line_cleaned)
AtHeader == ~header_found /\ HeaderSearch(detected_bank, Collapse(line))

\* a blank-line stop that looks one line ahead
blank_stop_short ==
    /\ line = ""
    /\ transactions # <<>>
    /\ i > 1
    /\ Strip(text[i - 1]) = ""
    /\ \A k \in (i + 1)..Min(i + 1, Len(text)) : Strip(text[k]) = ""

\* the blank-line stop condition
blank_stop ==
    /\ line = ""
    /\ transactions # <<>>
    /\ i > 1
    /\ Strip(text[i - 1]) = ""
    /\ \A k \in (i + 1)..Min(i + BlankAhead - 1, Len(text)) : Strip(text[k]) = ""

\* the footer stop condition: stop patterns are tried once a row exists
should_stop == transactions # <<>> /\ StopSearch(line)

Scanning == pc = "scan" /\ i <= Len(text)

ScanHeader ==
    /\ Scanning
    /\ AtHeader
    /\ in_transaction_section' = TRUE
    /\ header_found' = TRUE
    /\ i' = i + 1
    /\ UNCHANGED <<outer_vars, pc, text, detected_bank, bank_config, transactions, blocks,
                   skipped_lines_count, df, parsed_df, ret>>

ScanOutside ==
    /\ Scanning
    /\ ~AtHeader
    /\ ~in_transaction_section
    /\ i' = i + 1
    /\ UNCHANGED <<outer_vars, pc, text, detected_bank, bank_config, transactions, blocks,
                   in_transaction_section, header_found, skipped_lines_count, df,
                   parsed_df, ret>>

ScanBreak ==
    /\ Scanning
    /\ ~AtHeader
    /\ in_transaction_section
    /\ blank_stop \/ should_stop
    /\ pc' = "post"
    /\ UNCHANGED <<outer_vars, text, detected_bank, bank_config, scan_vars, df, parsed_df, ret>>

\* a match after which the scan goes on with the very next line
ScanMatch_next_line ==
    /\ Scanning
    /\ ~AtHeader
    /\ in_transaction_section
    /\ ~(blank_stop \/ should_stop)
    /\ LET m == MatchTransaction(detected_bank, text, i)
       IN  /\ m.match_found
           /\ transactions' =
                  Append(transactions, CurrentTransaction(detected_bank, m.data, m.mapping))
           /\ blocks' = Append(blocks, [at |-> i, consumed |-> m.consumed_lines])
           /\ i' = i + 1
    /\ skipped_lines_count' = 0
    /\ UNCHANGED <<outer_vars, pc, text, detected_bank, bank_config, in_transaction_section,
                   header_found, df, parsed_df, ret>>

ScanMatch ==
    /\ Scanning
    /\ ~AtHeader
    /\ in_transaction_section
    /\ ~(blank_stop \/ should_stop)
    /\ LET m == MatchTransaction(detected_bank, text, i)
       IN  /\ m.match_found
           /\ transactions' =
                  Append(transactions, CurrentTransaction(detected_bank, m.data, m.mapping))
           /\ blocks' = Append(blocks, [at |-> i, consumed |-> m.consumed_lines])
           /\ i' = i + 1 + m.consumed_lines
    /\ skipped_lines_count' = 0
    /\ UNCHANGED <<outer_vars, pc, text, detected_bank, bank_config, in_transaction_section,
                   header_found, df, parsed_df, ret>>

\* a scan that gives up at a start line no grammar alternative matches
ScanNoMatch_abort ==
    /\ Scanning
    /\ ~AtHeader
    /\ in_transaction_section
    /\ ~(blank_stop \/ should_stop)
    /\ ~MatchTransaction(detected_bank, text, i).match_found
    /\ IF StartSearch(detected_bank, text[i])
       THEN pc' = "post" /\ i' = i
       ELSE pc' = pc /\ i' = i + 1
    /\ UNCHANGED <<outer_vars, text, detected_bank, bank_config, transactions, blocks,
                   in_transaction_section, header_found, skipped_lines_count, df,
                   parsed_df, ret>>

ScanNoMatch ==
    /\ Scanning
    /\ ~AtHeader
    /\ in_transaction_section
    /\ ~(blank_stop \/ should_stop)
    /\ ~MatchTransaction(detected_bank, text, i).match_found
    /\ skipped_lines_count' =
           IF /\ detected_bank \in {"HDFC", "UNION_BANK"}
              /\ line # ""
              /\ StartSearch(detected_bank, line)
           THEN skipped_lines_count + 1
           ELSE skipped_lines_count
    /\ i' = i + 1
    /\ UNCHANGED <<outer_vars, pc, text, detected_bank, bank_config, transactions, blocks,
                   in_transaction_section, header_found, df, parsed_df, ret>>

\* while i < len(lines) ends
ScanEnd ==
    /\ pc = "scan"
    /\ i > Len(text)
    /\ pc' = "post"
    /\ UNCHANGED <<outer_vars, text, detected_bank, bank_config, scan_vars, df, parsed_df, ret>>

\* Post-Processing and DataFrame Creation; the frame goes back to parse()
Assemble ==
    /\ pc = "post"
    /\ df' = BuildDataFrame(detected_bank, transactions)
    /\ pc' = "check"
    /\ UNCHANGED <<outer_vars, text, detected_bank, bank_config, scan_vars, parsed_df, ret>>

\* a post-check whose NameError is not caught
PostCheckResult_uncaught(frame) == IF IsEmpty(frame) THEN Raised ELSE frame

\* parse(), inside try: "if df.empty and header_found" reads a name that
\* parse() never binds, so an empty frame raises NameError there; the
\* except clause returns pd.DataFrame()
PostCheckResult(frame) == IF IsEmpty(frame) THEN EmptyDataFrame ELSE frame

PostCheck ==
    /\ pc = "check"
    /\ parsed_df' = PostCheckResult(df)
    /\ pc' = "returned"
    /\ UNCHANGED <<outer_vars, text, detected_bank, bank_config, scan_vars, df, ret>>

\* parse_bank_statement after parser.parse(): clean the column names of a
\* non-empty frame and return it
Return ==
    /\ pc = "returned"
    /\ parsed_df' = CleanColumns(parsed_df)
    /\ ret' = CleanColumns(parsed_df)
    /\ pc' = "done"
    /\ UNCHANGED <<outer_vars, text, detected_bank, bank_config, scan_vars, df>>

Next ==
    \/ FileMissing
    \/ Construct
    \/ ParseEmptyText
    \/ DetectFails
    \/ DetectSucceeds
    \/ ScanHeader
    \/ ScanOutside
    \/ ScanBreak
    \/ ScanMatch
    \/ ScanNoMatch
    \/ ScanEnd
    \/ Assemble
    \/ PostCheck
    \/ Return

Spec == Init /\ [][Next]_vars

(***************************************************************************)
(* Detection on its own: texts made of a head, a run of filler lines and   *)
(* a tail, so that a start line can stand any distance after a header.     *)
(***************************************************************************)
MaxHead == 2
MaxFill == 9
MaxTail == 1

Fill(l, k) == [x \in 1..k |-> l]

HeadLines == {S_NAME_IN, S_NAME_WORD, H_NAME, U_NAME, S_HDR, H_HDR, U_HDR, H_TXN1}
TailLines == {H_TXN1, U_TXN_S, S_BAD, H_CONT}

DetectTexts(t) ==
    \E h \in 0..MaxHead : \E head \in [1..h -> HeadLines] :
        \E k \in 0..MaxFill :
            \E n \in 0..MaxTail : \E tail \in [1..n -> TailLines] :
                t = head \o Fill(H_CONT, k) \o tail

InitDetect == InitFile(DetectTexts) /\ InitProgram

NextDetect ==
    \/ FileMissing
    \/ Construct
    \/ ParseEmptyText
    \/ DetectFails
    \/ DetectSucceeds

SpecDetect == InitDetect /\ [][NextDetect]_vars

\* detect_bank has run on a non-empty text
Detected == pc \notin {"call", "parse"} /\ text # <<>>

\* the position of key b in the registry
RegistryIndex(b) == CHOOSE k \in 1..Len(BANKS) : BANKS[k] = b

\* C1 (as claimed): for every layout L, a non-empty text that contains L's
\* bank name is detected as L, whatever else the text contains.
C1_NameAlwaysWins ==
    Detected => \A b \in BankKeys : NameFound(b, text) => detected_bank = b

\* C1 (amended): when some layout's bank name occurs in the text as a whole
\* word, detect_bank returns the first layout in registry order whose name
\* occurs, whether or not a header of another layout is present and
\* confirmed; a name match is always preferred to a header match.
C1_FirstNameWins ==
    Detected =>
        \A b \in BankKeys :
            (/\ NameFound(b, text)
             /\ \A c \in BankKeys : RegistryIndex(c) < RegistryIndex(b) => ~NameFound(c, text))
            => detected_bank = b

\* C1 witness: a layout detected by its name although the header of a layout
\* that is earlier in the registry is present and confirmed by a start line.
C1_Witness ==
    /\ Detected
    /\ detected_bank = "HDFC"
    /\ NameFound("HDFC", text)
    /\ \E h \in 1..Len(text) :
          /\ HeaderSearch("SBI", Collapse(text[h]))
          /\ \E j \in (h + 1)..Len(text) : j <= h + 9 /\ StartSearch("SBI", text[j])

\* layout b has a header line in lines with a start line among the w lines
\* that follow it
ConfirmedWithin(b, lines, w) ==
    \E h \in 1..Len(lines) :
        /\ HeaderSearch(b, Collapse(lines[h]))
        /\ \E j \in 1..Len(lines) : h < j /\ j <= h + w /\ StartSearch(b, lines[j])

NoNameIn(lines) == \A b \in BankKeys : ~NameFound(b, lines)

\* with no bank name in the text, the layout returned is the first one in
\* registry order that is confirmed within w lines, and None if there is none
HeaderRule(w) ==
    (Detected /\ NoNameIn(text)) =>
        /\ \A b \in BankKeys :
              detected_bank = b <=>
                  /\ ConfirmedWithin(b, text, w)
                  /\ \A c \in BankKeys :
                        RegistryIndex(c) < RegistryIndex(b) => ~ConfirmedWithin(c, text, w)
        /\ detected_bank = None <=> \A b \in BankKeys : ~ConfirmedWithin(b, text, w)

\* C2 (as claimed): with no bank name in the text, detect_bank returns L
\* exactly when a header line of L has a start line of L among the 10 lines
\* that follow it, the first such layout in registry order.
C2_TenLines == HeaderRule(10)

\* C2 (amended): the same with the 9 lines that follow the header line; a
\* start line that is the 10th line after the header does not confirm L.
C2_NineLines == HeaderRule(9)

\* C2 witness: a layout confirmed by a start line that is the 9th line after
\* its header, and no nearer one.
C2_Witness ==
    /\ Detected
    /\ NoNameIn(text)
    /\ detected_bank # None
    /\ ConfirmedWithin(detected_bank, text, 9)
    /\ ~ConfirmedWithin(detected_bank, text, 8)

(***************************************************************************)
(* Properties of parse_bank_statement and of the line scan.                *)
(***************************************************************************)
\* _parse_transactions has left its loop
ScanOver == pc \in {"post", "check", "returned", "done"} /\ detected_bank # None

SetMin(S) == CHOOSE x \in S : \A y \in S : x <= y

\* line k lies strictly after the first header line
InSection(k) ==
    \E h \in 1..(k - 1) : HeaderSearch(detected_bank, Collapse(Strip(text[h])))

\* the line matches some grammar alternative of the layout
MatchesGrammar(b, l) ==
    CASE b = "HDFC" -> HdfcGroups(Strip(l)) # NoMatch
      [] b = "UNION_BANK" ->
           UnionSameGroups(Strip(l)) # NoMatch \/ UnionMultiGroups(Strip(l)) # NoMatch
      [] OTHER -> SbiGroups(Strip(l)) # NoMatch

\* a row was produced from line k
RowAt(k) == \E r \in 1..Len(blocks) : blocks[r].at = k

\* line k was absorbed into the block of row r
AbsorbedBy(r, k) == blocks[r].at < k /\ k <= blocks[r].at + blocks[r].consumed

IsBlankLine(k) == Strip(text[k]) = ""

\* line k is a stop condition of the text: a footer line, or a blank line
\* that follows a blank line and is followed by blank lines only, as far as
\* the blank-line rule looks
StopLine(k) ==
    \/ StopSearch(Strip(text[k]))
    \/ /\ IsBlankLine(k)
       /\ k > 1
       /\ IsBlankLine(k - 1)
       /\ \A q \in (k + 1)..Len(text) : q <= k + 3 => IsBlankLine(q)

\* the three outcomes of a call
Unreadable == ~pdf_exists \/ ~pdf_loads \/ pdf_text = <<>>
NoLayout == ~Unreadable /\ detected_bank = None
ZeroTransactions == ~Unreadable /\ detected_bank # None /\ transactions = <<>>

\* what the call returns when a layout is detected and no row is found, and
\* what it returns for an unreadable input
ReturnOfZeroTransactions == PostCheckResult(BuildDataFrame("HDFC", <<>>))
ReturnOfUnreadable == EmptyDataFrame

\* C3: the value returned to the caller distinguishes (a) layout detected
\* with zero transactions, (b) no layout detected, (c) unreadable input: a
\* call that ends in one outcome never returns what another outcome returns.
C3_OutcomesDistinct ==
    pc = "done" =>
        /\ (NoLayout \/ Unreadable) => ret # ReturnOfZeroTransactions
        /\ NoLayout => ret # ReturnOfUnreadable

\* C4: parse() never raises to its caller: every call returns a table, and
\* a text with a valid header and zero transaction lines returns the empty
\* table (the NameError of parse's own post-check is converted into it).
C4_ParseNeverRaises ==
    /\ pc = "returned" => parsed_df.kind = "DataFrame"
    /\ pc = "done" => ret.kind = "DataFrame"
    /\ (pc = "returned" /\ detected_bank # None /\ transactions = <<>>)
           => parsed_df = EmptyDataFrame

\* C4 witness: a call on a text with a header and no transaction row has
\* returned the empty table.
C4_Witness ==
    /\ pc = "done"
    /\ detected_bank # None
    /\ header_found
    /\ transactions = <<>>
    /\ ret = EmptyDataFrame

\* no stop condition of the text lies after the header up to line m
NoStopUpTo(m) == \A q \in 1..m : InSection(q) => ~StopLine(q)

\* line k is in the section, satisfies the start rule and fails the grammar
FailedStart(k) ==
    /\ InSection(k)
    /\ StartSearch(detected_bank, text[k])
    /\ ~MatchesGrammar(detected_bank, text[k])

\* C5: a line of the transaction section that satisfies the start rule but
\* matches no grammar alternative produces no row and does not end the
\* scan: every later line that matches the grammar, up to the first stop
\* condition, still produces its row.
C5_FailedBlockSkipped ==
    ScanOver =>
        \A k \in 1..Len(text) : \A m \in 1..Len(text) :
            (/\ k < m
             /\ FailedStart(k)
             /\ MatchesGrammar(detected_bank, text[m])
             /\ NoStopUpTo(m))
            => RowAt(m) /\ ~RowAt(k)

\* C5 witness: a row was produced from a line that follows a failed start line.
C5_Witness ==
    /\ ScanOver
    /\ \E k \in 1..Len(text) : \E m \in 1..Len(text) :
          FailedStart(k) /\ k < m /\ RowAt(m)

\* C6: every block that fails all grammar alternatives is recorded: after a
\* parse, the number of recorded failures equals the number of start-rule
\* lines of the scanned transaction section that produced no row.
C6_FailuresRecorded ==
    ScanOver =>
        skipped_lines_count =
            Cardinality({k \in 1..Len(text) :
                            /\ InSection(k)
                            /\ k < i
                            /\ StartSearch(detected_bank, text[k])
                            /\ ~RowAt(k)})

\* C7: no row is ever produced from a line at or before the first line that
\* matches the header pattern; rows come only from lines strictly after it,
\* and without a header line there is no row.
C7_RowsAfterHeader ==
    /\ Len(blocks) = Len(transactions)
    /\ \A r \in 1..Len(blocks) : InSection(blocks[r].at)

\* C7 witness: rows were produced although a grammar line stands at or
\* before the header.
C7_Witness ==
    /\ ScanOver
    /\ transactions # <<>>
    /\ \E k \in 1..Len(text) :
          ~InSection(k) /\ MatchesGrammar(detected_bank, text[k])

\* C8: once a row exists, the first later line that matches a stop pattern
\* ends the scan: neither it nor any line after it yields a row or is
\* absorbed into a row's narration or remarks.
C8_FooterEndsScan ==
    (ScanOver /\ blocks # <<>>) =>
        LET footers == {k \in 1..Len(text) : k > blocks[1].at /\ StopSearch(Strip(text[k]))}
        IN  footers # {} =>
                \A r \in 1..Len(blocks) :
                    blocks[r].at + blocks[r].consumed < SetMin(footers)

\* the layout's continuation rule; SBI has none and takes every line
ContinuationRule(b, l) ==
    CASE b = "HDFC" -> NarrationContMatch(Strip(l))
      [] b = "UNION_BANK" -> RemarksContMatch(Strip(l))
      [] OTHER -> TRUE

\* the block of row r is still open at line k: no start line and no stop
\* condition since its transaction line
OpenAt(r, k) ==
    /\ blocks[r].at < k
    /\ \A q \in (blocks[r].at + 1)..k :
          ~StartSearch(detected_bank, text[q]) /\ ~StopLine(q)

\* C10: while a block is open, every non-blank line that matches the
\* continuation rule is appended to it, also after a skipped blank line or
\* a discarded noise line; for SBI every such line is appended.
C10_ContinuationAppended ==
    ScanOver =>
        \A r \in 1..Len(blocks) : \A k \in 1..Len(text) :
            (/\ OpenAt(r, k)
             /\ ~IsBlankLine(k)
             /\ ContinuationRule(detected_bank, text[k]))
            => AbsorbedBy(r, k)

(***************************************************************************)
(* The blank-line stop, on texts with one run of blank lines between two   *)
(* groups of transaction and continuation lines.                           *)
(***************************************************************************)
MaxSide == 2
MaxBlankRun == 5

ContLine(f) ==
    CASE f = "SBI" -> S_CONT [] f = "HDFC" -> H_CONT [] f = "UNION_BANK" -> U_CONT

FirstHeaderLine(f) ==
    CASE f = "SBI" -> S_HDR [] f = "HDFC" -> H_HDR [] f = "UNION_BANK" -> U_HDR

SideLines(f) == {TxnLine(f), ContLine(f)}

BlankTexts(t) ==
    \E f \in BankKeys :
        \E pre \in {<<>>, <<NameLine(f)>>} : \E hdr \in {<<>>, <<FirstHeaderLine(f)>>} :
            \E m \in 0..MaxSide : \E before \in [1..m -> SideLines(f)] :
                \E k \in 0..MaxBlankRun :
                    \E n \in 0..MaxSide : \E after \in [1..n -> SideLines(f)] :
                        t = pre \o hdr \o before \o Fill(BLANK, k) \o after

InitBlank == InitFile(BlankTexts) /\ InitProgram

SpecBlank == InitBlank /\ [][Next]_vars

\* lines a..b are a maximal run of blank lines
BlankRun(a, b) ==
    /\ a <= b
    /\ \A q \in a..b : IsBlankLine(q)
    /\ a = 1 \/ ~IsBlankLine(a - 1)
    /\ b = Len(text) \/ ~IsBlankLine(b + 1)

\* a row was produced from a line before line a
RowBefore(a) == \E r \in 1..Len(blocks) : blocks[r].at < a

\* once a row exists, a run of n or more blank lines stops the scan and a
\* shorter run followed by a transaction line is skipped
BlankRule(n) ==
    ScanOver =>
        \A a \in 1..Len(text) : \A b \in 1..Len(text) :
            (BlankRun(a, b) /\ RowBefore(a)) =>
                /\ b - a + 1 >= n => \A m \in (b + 1)..Len(text) : ~RowAt(m)
                /\ (/\ b - a + 1 < n
                    /\ b < Len(text)
                    /\ MatchesGrammar(detected_bank, text[b + 1])) => RowAt(b + 1)

\* C9 (as claimed): after at least one row, a run of 3 consecutive blank
\* lines stops the scan and a run of fewer than 3 is skipped.
C9_ThreeBlankLines == BlankRule(3)

\* C9 (amended): after at least one row, a run of 5 consecutive blank lines
\* stops the scan, so a transaction line after it produces no row; a run of
\* fewer than 5 blank lines followed by a transaction line is skipped and
\* that line produces its row.
C9_FiveBlankLines == BlankRule(5)

\* C9 witness: the scan stopped in a run of 5 blank lines that follows a row
\* and precedes a transaction line.
C9_Witness ==
    /\ ScanOver
    /\ \E a \in 1..Len(text) :
          /\ a + 5 <= Len(text)
          /\ BlankRun(a, a + 4)
          /\ RowBefore(a)
          /\ MatchesGrammar(detected_bank, text[a + 5])
          /\ ~RowAt(a + 5)
          /\ i = a + 1

(***************************************************************************)
(* States in which the code departs from the specification.                *)
(***************************************************************************)
\* C3: a call that detected no layout returned what a call with a detected
\* layout and zero transactions returns.
C3_Witness == pc = "done" /\ NoLayout /\ ret = ReturnOfZeroTransactions

\* C6: a start line of the section produced no row, and no failure is on
\* record when the scan is over.
C6_Witness ==
    /\ ScanOver
    /\ skipped_lines_count = 0
    /\ \E k \in 1..Len(text) : FailedStart(k) /\ k < i

\* C8: a footer line was absorbed into the narration or remarks of a row.
C8_Witness ==
    /\ ScanOver
    /\ \E r \in 1..Len(blocks) : \E k \in 1..Len(text) :
          AbsorbedBy(r, k) /\ StopSearch(Strip(text[k]))

\* C10: a continuation line that follows a blank line was not appended to
\* the open block.
C10_Witness ==
    /\ ScanOver
    /\ \E r \in 1..Len(blocks) : \E k \in 2..Len(text) :
          /\ OpenAt(r, k)
          /\ IsBlankLine(k - 1)
          /\ ~IsBlankLine(k)
          /\ ContinuationRule(detected_bank, text[k])
          /\ ~AbsorbedBy(r, k)

(***************************************************************************)
(* Rows and the lines they were built from.                                *)
(***************************************************************************)
\* the lines absorbed into the block of row r
AbsorbedLines(r) == (blocks[r].at + 1)..(blocks[r].at + blocks[r].consumed)

\* line k is a bare balance line of the two-variant layout
IsBalanceLine(k) == UnionBalanceGroup(Strip(text[k])) # None

\* the column that holds a row's free text
FreeTextColumn(b) == IF b = "HDFC" THEN "Narration" ELSE "Remarks"

\* the free-text capture of the grammar alternative that matches line l
FreeTextCapture(b, l) ==
    CASE b = "HDFC" -> HdfcGroups(Strip(l))[2]
      [] b = "UNION_BANK" ->
           (IF UnionSameGroups(Strip(l)) # NoMatch
            THEN UnionSameGroups(Strip(l))[4]
            ELSE UnionMultiGroups(Strip(l))[4])
      [] OTHER -> SbiGroups(Strip(l))[4]

\* the absorbed lines of row r that are not bare balance lines, trimmed, in
\* source order
RECURSIVE ContinuationText(_, _)
ContinuationText(r, k) ==
    IF k > blocks[r].at + blocks[r].consumed THEN <<>>
    ELSE IF detected_bank = "UNION_BANK" /\ IsBalanceLine(k)
    THEN ContinuationText(r, k + 1)
    ELSE <<Strip(text[k])>> \o ContinuationText(r, k + 1)

\* the first capture followed by the continuation lines, joined by one space
JoinedFreeText(r) ==
    Join(NonEmpty(<<Strip(FreeTextCapture(detected_bank, text[blocks[r].at]))>>
                  \o ContinuationText(r, blocks[r].at + 1)))

\* C11: for Union Bank a bare balance line is never appended to the remarks:
\* a row absorbs at most one balance line, none after a same-line match;
\* after a multi-line match the first bare balance line of the run becomes
\* the row's balance, and the remarks hold the other absorbed lines only.
C11_BalanceLineNotRemarks ==
    detected_bank = "UNION_BANK" =>
        \A r \in 1..Len(blocks) :
            LET at == blocks[r].at
                bal == {k \in AbsorbedLines(r) : IsBalanceLine(k)}
                same == UnionSameGroups(Strip(text[at])) # NoMatch
            IN  /\ Cardinality(bal) <= 1
                /\ same => bal = {}
                /\ \A k \in bal :
                      transactions[r]["Balance(Rs.)"] = UnionBalanceGroup(Strip(text[k]))
                /\ (~same /\ at < Len(text) /\ IsBalanceLine(at + 1)) => (at + 1) \in bal
                /\ transactions[r]["Remarks"] = JoinedFreeText(r)

\* C11 witness: a multi-line row took one balance line as its balance and
\* left the bare balance line that follows it.
C11_Witness ==
    /\ detected_bank = "UNION_BANK"
    /\ \E r \in 1..Len(blocks) :
          LET end == blocks[r].at + blocks[r].consumed
          IN  /\ \E k \in AbsorbedLines(r) : IsBalanceLine(k)
              /\ end < Len(text)
              /\ IsBalanceLine(end + 1)

\* the groups of the first Union Bank alternative, in the order tried, that
\* matches line l: same-line, then multi-line
FirstAlternative(l) ==
    IF UnionSameGroups(Strip(l)) # NoMatch
    THEN [groups |-> UnionSameGroups(Strip(l)), mapping |-> SameLineMapping]
    ELSE [groups |-> UnionMultiGroups(Strip(l)), mapping |-> MultiLineMapping]

\* C12: for Union Bank the same-line alternative is tried first and the
\* multi-line alternative only when it fails; the first that matches decides
\* the mapping of S.No, Date, Transaction Id and Amount, and the balance is
\* the same-line capture when same-line matched; every scanned transaction
\* line of the section yields exactly one row.
C12_FirstAlternativeWins ==
    detected_bank = "UNION_BANK" =>
        /\ \A r \in 1..Len(blocks) :
              LET alt == FirstAlternative(text[blocks[r].at])
                  row == transactions[r]
              IN  /\ alt.groups # NoMatch
                  /\ row["S.No"] = alt.groups[1]
                  /\ row["Date"] = alt.groups[2]
                  /\ row["Transaction Id"] = alt.groups[3]
                  /\ row["Amount(Rs.)"] = alt.groups[5]
                  /\ alt.mapping = SameLineMapping => row["Balance(Rs.)"] = alt.groups[6]
        /\ \A r \in 1..Len(blocks) : \A q \in 1..Len(blocks) :
              blocks[r].at = blocks[q].at => r = q
        /\ \A k \in 1..Len(text) :
              (/\ pc \notin {"call", "parse"}
               /\ k < i
               /\ InSection(k)
               /\ MatchesGrammar("UNION_BANK", text[k])) => RowAt(k)

\* C12 witness: a line that both alternatives match gave a row with the
\* same-line amount, and a line only the multi-line alternative matches gave
\* the next row.
C12_Witness ==
    /\ detected_bank = "UNION_BANK"
    /\ \E r \in 1..Len(blocks) : \E q \in 1..Len(blocks) :
          /\ UnionSameGroups(Strip(text[blocks[r].at])) # NoMatch
          /\ UnionMultiGroups(Strip(text[blocks[r].at])) # NoMatch
          /\ transactions[r]["Amount(Rs.)"] = "100.00 (Dr)"
          /\ UnionSameGroups(Strip(text[blocks[q].at])) = NoMatch
          /\ q = r + 1

\* line k continues a block: not blank, not a footer, not a start line, not
\* a bare balance line, and accepted by the layout's continuation rule
IsContinuationLine(k) ==
    /\ ~IsBlankLine(k)
    /\ ~StopSearch(Strip(text[k]))
    /\ ~StartSearch(detected_bank, text[k])
    /\ ~(detected_bank = "UNION_BANK" /\ IsBalanceLine(k))
    /\ ContinuationRule(detected_bank, text[k])

\* the text is a header followed by transaction lines, each with zero or
\* more continuation lines, and nothing else
HeaderThenBlocks ==
    \E h \in 1..Len(text) :
        /\ HeaderSearch(detected_bank, Collapse(Strip(text[h])))
        /\ ~InSection(h)
        /\ \A k \in (h + 1)..Len(text) :
              \/ MatchesGrammar(detected_bank, text[k])
              \/ k > h + 1 /\ IsContinuationLine(k)

\* the transaction lines of the section, in source order
RECURSIVE TransactionLines(_)
TransactionLines(k) ==
    IF k > Len(text) THEN <<>>
    ELSE IF InSection(k) /\ MatchesGrammar(detected_bank, text[k])
    THEN <<k>> \o TransactionLines(k + 1)
    ELSE TransactionLines(k + 1)

\* the trimmed lines from k up to the next transaction line
RECURSIVE FollowingLines(_)
FollowingLines(k) ==
    IF k > Len(text) \/ MatchesGrammar(detected_bank, text[k]) THEN <<>>
    ELSE <<Strip(text[k])>> \o FollowingLines(k + 1)

\* the free text a block should carry: the capture of its transaction line
\* and its continuation lines, joined by single spaces
ExpectedFreeText(a) ==
    Join(NonEmpty(<<Strip(FreeTextCapture(detected_bank, text[a]))>> \o FollowingLines(a + 1)))

\* for the layouts in L: a header followed by blocks gives one row per
\* transaction line, whose free text is the capture and the continuation
\* lines joined
RowsJoined(L) ==
    (ScanOver /\ detected_bank \in L /\ HeaderThenBlocks) =>
        LET lines == TransactionLines(1)
        IN  /\ Len(transactions) = Len(lines)
            /\ \A r \in 1..Len(lines) :
                  /\ r <= Len(blocks)
                  /\ blocks[r].at = lines[r]
                  /\ transactions[r][FreeTextColumn(detected_bank)] = ExpectedFreeText(lines[r])

\* C13: for a header followed by transaction lines, each with k >= 0
\* continuation lines, the number of rows equals the number of transaction
\* lines and each row's narration or remarks is the first line's capture
\* followed by its continuation lines, trimmed, in source order, joined by
\* single spaces; in every layout.
C13_RowsJoinedEveryLayout == RowsJoined(BankKeys)

\* the same for the layouts that have a look-ahead loop
RowsJoinedWithLookahead == RowsJoined({"HDFC", "UNION_BANK"})

\* C13: an SBI row whose continuation line is missing from its remarks.
C13_Witness ==
    /\ ScanOver
    /\ detected_bank = "SBI"
    /\ HeaderThenBlocks
    /\ \E r \in 1..Len(blocks) :
          /\ blocks[r].at < Len(text)
          /\ IsContinuationLine(blocks[r].at + 1)
          /\ transactions[r]["Remarks"] # ExpectedFreeText(blocks[r].at)


(***************************************************************************)
(* Round trip: a record of field values written out as a statement line    *)
(* and read back by the layout's grammar.                                  *)
(***************************************************************************)
\* records of field values in column order; balance_below says that the
\* balance stands on a line of its own (Union Bank's second variant)
HdfcRecords ==
    {[fields |-> <<"01/04/23", "UPI-SHOP", "0000123", "01/04/23", "100.00", "", "900.00">>,
      balance_below |-> FALSE],
     [fields |-> <<"02/04/23", "NEFT SALARY", "N456", "02/04/23", "", "5,000.00", "5,900.00">>,
      balance_below |-> FALSE],
     [fields |-> <<"01/04/23", "TRANSFER", "0000123", "01/04/23", "100.00", "5,000.00",
                   "5,900.00">>,
      balance_below |-> FALSE],
     [fields |-> <<"02/04/23", "INTEREST", "N456", "02/04/23", "0.00", "5,000.00", "5,900.00">>,
      balance_below |-> FALSE],
     [fields |-> <<"31/02/23", "UPI-SHOP", "0000123", "31/02/23", "100.00", "", "900.00">>,
      balance_below |-> FALSE],
     [fields |-> <<"01/04/23", "CHARGES", "0000123", "01/04/23", "", "", "900.00">>,
      balance_below |-> FALSE]}

UnionRecords ==
    {[fields |-> <<"1", "01/04/2023", "S12345", "UPI/SHOP", "100.00 (Dr)", "900.00 (Cr)">>,
      balance_below |-> FALSE],
     [fields |-> <<"2", "02/04/2023", "S67890", "NEFT/ACME", "5,000.00 (Cr)", "5,900.00 (Cr)">>,
      balance_below |-> TRUE],
     [fields |-> <<"1", "01/04/2023", "T123", "FEE 1.00 (Dr)", "100.00 (Dr)", "900.00 (Cr)">>,
      balance_below |-> FALSE],
     [fields |-> <<"2", "02/04/2023", "S67890", "CARD", "100.00 (DR)", "800.00 (cr)">>,
      balance_below |-> FALSE]}

SbiRecords ==
    {[fields |-> <<"1", "01/04/2023", "T123", "ATM WDL", "100.00 (Dr)", "900.00 (Cr)">>,
      balance_below |-> FALSE],
     [fields |-> <<"1", "01/04/2023", "T123", "FEE 1.00 (Dr)", "100.00 (Dr)", "900.00 (Cr)">>,
      balance_below |-> FALSE],
     [fields |-> <<"2", "02/04/2023", "S67890", "CARD", "100.00 (DR)", "800.00 (cr)">>,
      balance_below |-> FALSE]}

Records(b) ==
    CASE b = "HDFC" -> HdfcRecords [] b = "UNION_BANK" -> UnionRecords [] b = "SBI" -> SbiRecords

\* the gap between two columns: one space or two
Separators == {" ", "  "}

\* sep.join(parts)
RECURSIVE JoinWith(_, _)
JoinWith(parts, sep) ==
    IF parts = <<>> THEN ""
    ELSE IF Len(parts) = 1 THEN parts[1]
    ELSE parts[1] \o sep \o JoinWith(Tail(parts), sep)

\* the record as statement lines, the fields in column order
Render(rec, sep) ==
    IF rec.balance_below
    THEN <<JoinWith(SubSeq(rec.fields, 1, Len(rec.fields) - 1), sep),
           rec.fields[Len(rec.fields)]>>
    ELSE <<JoinWith(rec.fields, sep)>>

\* the mapping that names a record's fields
RecordMapping(b) == IF b = "HDFC" THEN HdfcMapping ELSE SameLineMapping

\* the row dict that holds the record's own values
RowOf(b, rec) ==
    [c \in {ColumnMapping(b, RecordMapping(b)[k][1]) : k \in 1..Len(RecordMapping(b))} |->
        rec.fields[CHOOSE k \in 1..Len(RecordMapping(b)) :
                       ColumnMapping(b, RecordMapping(b)[k][1]) = c]]

\* what stands between the header and the last record: nothing, or one
\* more rendered record
Earlier(f) == {<<>>} \cup {Render(rec, sep) : rec \in Records(f), sep \in Separators}

\* t is a preamble, the header and one or two rendered records of one layout
RenderedTexts(t) ==
    \E f \in BankKeys : \E pre \in Preambles(f) : \E first \in Earlier(f) :
        \E rec \in Records(f) : \E sep \in Separators :
            t = pre \o <<FirstHeaderLine(f)>> \o first \o Render(rec, sep)

InitRoundTrip == InitFile(RenderedTexts) /\ InitProgram

NextRoundTrip ==
    \/ FileMissing
    \/ Construct
    \/ ParseEmptyText
    \/ DetectSucceeds
    \/ ScanHeader
    \/ ScanOutside
    \/ ScanMatch
    \/ ScanEnd
    \/ Assemble
    \/ PostCheck
    \/ Return

SpecRoundTrip == InitRoundTrip /\ [][NextRoundTrip]_vars

\* the text is a preamble, the header and the rendering of rec
IsRendered(b, rec, sep) ==
    \E pre \in Preambles(b) : text = pre \o <<FirstHeaderLine(b)>> \o Render(rec, sep)

\* once the scan is over, a record of a layout in L rendered with a gap in
\* S has come back as the one row, every field with its own value
RoundTrip(L, S) ==
    ScanOver =>
        \A b \in L : \A rec \in Records(b) : \A sep \in S :
            (detected_bank = b /\ IsRendered(b, rec, sep))
                => transactions = <<RowOf(b, rec)>>

\* C14: for every layout and every record of valid field values, rendering
\* the record as a statement line in column order and extracting it with the
\* layout's grammar gives back the same value for every field.
C14_RoundTrip == RoundTrip(BankKeys, Separators)

\* the HDFC and Union Bank records rendered with single spaces come back
RoundTripSingleSpaced == RoundTrip({"HDFC", "UNION_BANK"}, {" "})

\* an HDFC record with only a deposit, its columns two spaces apart, has
\* come back with the deposit in the withdrawal column
C14_Witness ==
    /\ ScanOver
    /\ text = <<H_HDR, H_TXN2_W>>
    /\ Len(transactions) = 1
    /\ transactions[1]["Withdrawal Amt."] = "5,000.00"
    /\ transactions[1]["Deposit Amt."] = ""


(***************************************************************************)
(* Amounts and directions of the output rows.                              *)
(***************************************************************************)
\* parse() has the frame of a statement with rows
HasRows == df.kind = "DataFrame" /\ ~IsEmpty(df) /\ detected_bank # None

\* the amounts whose marker denotes a debit, and a credit, in any spelling
DebitMarked == {"1.00 (Dr)", "100.00 (Dr)", "100.00 (DR)"}

CreditMarked == {"900.00 (Cr)", "5,000.00 (Cr)", "5,900.00 (Cr)", "800.00 (cr)"}

\* the number an amount text shows, commas dropped, in hundredths
Magnitude(amount_str) ==
    CASE amount_str \in {"0.00"} -> 0
      [] amount_str \in {"1.00 (Dr)"} -> 100
      [] amount_str \in {"100.00", "100.00 (Dr)", "100.00 (DR)"} -> 10000
      [] amount_str \in {"800.00 (cr)"} -> 80000
      [] amount_str \in {"900.00", "900.00 (Cr)"} -> 90000
      [] amount_str \in {"5,000.00", "5,000.00 (Cr)"} -> 500000
      [] amount_str \in {"5,900.00", "5,900.00 (Cr)"} -> 590000

\* every Union Bank or SBI row whose amount is in D is a debit of its
\* magnitude, and every row whose amount is in C a credit
MarkerRule(D, C) ==
    (HasRows /\ detected_bank \in {"UNION_BANK", "SBI"}) =>
        \A r \in 1..Len(df.rows) :
            LET amount_str == transactions[r]["Amount(Rs.)"]
            IN  /\ amount_str \in D \cup C
                    => df.rows[r]["Amount_Num"] = Float(Magnitude(amount_str))
                /\ amount_str \in D => df.rows[r]["Type"] = "Dr"
                /\ amount_str \in C => df.rows[r]["Type"] = "Cr"

\* C15: a Union Bank or SBI amount 'm (Dr)' gives Amount_Num m and Type Dr,
\* 'm (Cr)' gives Type Cr, commas are dropped from the number, and a marker
\* the grammar accepts in another spelling, as (DR) or (cr), gives the
\* direction it denotes.
C15_MarkerGivesDirection == MarkerRule(DebitMarked, CreditMarked)

\* the same for the markers spelt (Dr) and (Cr)
MarkerRuleExactSpelling ==
    MarkerRule(DebitMarked \ {"100.00 (DR)"}, CreditMarked \ {"800.00 (cr)"})

\* a row with the amount '100.00 (DR)' has its number and no direction
C15_Witness ==
    /\ HasRows
    /\ detected_bank = "UNION_BANK"
    /\ \E r \in 1..Len(df.rows) :
           /\ transactions[r]["Amount(Rs.)"] = "100.00 (DR)"
           /\ df.rows[r]["Amount_Num"] = Float(10000)
           /\ df.rows[r]["Type"] = None


(***************************************************************************)
(* Balance differences between consecutive Union Bank or SBI rows.         *)
(***************************************************************************)
\* rows r - 1 and r both carry a numeric balance and row r a numeric amount
HasDelta(r) ==
    /\ HasRows
    /\ detected_bank \in {"UNION_BANK", "SBI"}
    /\ r \in 2..Len(df.rows)
    /\ df.rows[r][FinalBalanceColumn(detected_bank)] # NaN
    /\ df.rows[r - 1][FinalBalanceColumn(detected_bank)] # NaN
    /\ df.rows[r]["Amount_Num"] # NaN

\* balance[r] - balance[r - 1], in hundredths
BalanceDelta(r) ==
    df.rows[r][FinalBalanceColumn(detected_bank)][1]
        - df.rows[r - 1][FinalBalanceColumn(detected_bank)][1]

\* x and y differ by at most 0.01
Within(x, y) == x - y <= 1 /\ y - x <= 1

DeltaIsCredit(r) == Within(BalanceDelta(r), df.rows[r]["Amount_Num"][1])

DeltaIsDebit(r) == Within(BalanceDelta(r), 0 - df.rows[r]["Amount_Num"][1])

\* C16: from the second row on, a Union Bank or SBI row is a credit when its
\* balance rose by its magnitude and a debit when its balance fell by it,
\* within 0.01, and the direction field says so.
C16_DeltaDecidesDirection ==
    \A r \in 2..Len(transactions) :
        HasDelta(r) =>
            /\ DeltaIsCredit(r) => df.rows[r]["Type"] = "Cr"
            /\ DeltaIsDebit(r) => df.rows[r]["Type"] = "Dr"

\* the balance fell from 900.00 to 800.00 on a row of magnitude 100.00 and
\* the row has no direction
C16_Witness ==
    /\ HasDelta(2)
    /\ BalanceDelta(2) = 0 - 10000
    /\ df.rows[2]["Amount_Num"] = Float(10000)
    /\ df.rows[2]["Type"] = None

\* the columns of the frame that the conversion does not set up
ReviewColumns == Range(df.columns) \ Range(ConvertedColumns(detected_bank))

\* row r is marked for manual review
Flagged(r) == \E c \in ReviewColumns : df.rows[r][c] = TRUE

\* every transaction has its row in the frame
RowsKept == HasRows => Len(df.rows) = Len(transactions)

\* C17: a row whose balance difference is neither plus nor minus its
\* magnitude, within 0.01, is kept with its magnitude, no direction and a
\* mark for manual review.
C17_UnmatchedRowFlagged ==
    \A r \in 2..Len(transactions) :
        (HasDelta(r) /\ ~DeltaIsCredit(r) /\ ~DeltaIsDebit(r)) =>
            /\ Len(df.rows) = Len(transactions)
            /\ df.rows[r]["Amount_Num"] = Float(Magnitude(transactions[r]["Amount(Rs.)"]))
            /\ df.rows[r]["Type"] = None
            /\ Flagged(r)

\* two rows of magnitude 100.00 with the same balance: the second row is
\* kept as a debit and nothing marks it
C17_Witness ==
    /\ HasDelta(2)
    /\ BalanceDelta(2) = 0
    /\ df.rows[2]["Amount_Num"] = Float(10000)
    /\ df.rows[2]["Type"] = "Dr"
    /\ ~Flagged(2)


(***************************************************************************)
(* The numbers of the output rows.                                         *)
(***************************************************************************)
\* x is a number other than zero
NonZero(x) == x # NaN /\ x # Float(0)

\* C18: in every HDFC output row at most one of Withdrawal Amt. and Deposit
\* Amt. is a non-zero number, for every line the HDFC grammar accepts.
C18_OneSideOnly ==
    (HasRows /\ detected_bank = "HDFC") =>
        \A r \in 1..Len(df.rows) :
            ~(NonZero(df.rows[r]["Withdrawal Amt."]) /\ NonZero(df.rows[r]["Deposit Amt."]))

\* an HDFC row with a withdrawal of 100.00 and a deposit of 5000.00
C18_Witness ==
    /\ HasRows
    /\ detected_bank = "HDFC"
    /\ \E r \in 1..Len(df.rows) :
           /\ df.rows[r]["Withdrawal Amt."] = Float(10000)
           /\ df.rows[r]["Deposit Amt."] = Float(500000)

\* the columns of the frame that hold numbers
AmountColumns(b) ==
    IF b = "HDFC"
    THEN {"Withdrawal Amt.", "Deposit Amt.", "Closing Balance_Num", "Amount_Num"}
    ELSE {"Amount_Num", FinalBalanceColumn(b)}

\* x is missing or a number that is not negative
MissingOrNonNegative(x) == x = NaN \/ x[1] >= 0

\* C19: in every output row of every layout each numeric amount (Amount_Num,
\* withdrawal, deposit, numeric balance) is missing or at least zero, and
\* Type is Dr, Cr or missing.
C19_AmountsNonNegative ==
    HasRows =>
        \A r \in 1..Len(df.rows) :
            /\ \A c \in AmountColumns(detected_bank) : MissingOrNonNegative(df.rows[r][c])
            /\ df.rows[r]["Type"] \in {"Dr", "Cr", None}

\* a Union Bank row whose markers are spelt (DR) and (cr): the amount is
\* 100.00, the balance 800.00, and the direction is missing
C19_Witness ==
    /\ HasRows
    /\ detected_bank = "UNION_BANK"
    /\ \E r \in 1..Len(df.rows) :
           /\ transactions[r]["Balance(Rs.)"] = "800.00 (cr)"
           /\ df.rows[r]["Balance(Rs.)_Num"] = Float(80000)
           /\ df.rows[r]["Amount_Num"] = Float(10000)
           /\ df.rows[r]["Type"] = None

\* the HDFC amount texts of a row
HdfcAmountColumns == {"Withdrawal Amt.", "Deposit Amt."}

\* every HDFC amount text in T has become the number it shows, and zero
\* when it is empty
EmptyIsZero(T) ==
    (HasRows /\ detected_bank = "HDFC") =>
        \A r \in 1..Len(df.rows) : \A c \in HdfcAmountColumns :
            transactions[r][c] \in T =>
                df.rows[r][c] = IF transactions[r][c] = "" THEN Float(0)
                                ELSE Float(Magnitude(transactions[r][c]))

\* C20: an empty amount field, as the empty withdrawal or deposit of an HDFC
\* row, becomes the number zero in the output row, and grouping commas are
\* dropped before the conversion.
C20_EmptyAmountIsZero == EmptyIsZero({"", "0.00", "100.00", "5,000.00"})

\* the amounts that are not empty have become their numbers, commas dropped
AmountsConverted == EmptyIsZero({"0.00", "100.00", "5,000.00"})

\* an HDFC row with an empty withdrawal: the number is missing, the deposit
\* 5,000.00 is 5000.00
C20_Witness ==
    /\ HasRows
    /\ detected_bank = "HDFC"
    /\ \E r \in 1..Len(df.rows) :
           /\ transactions[r]["Withdrawal Amt."] = ""
           /\ df.rows[r]["Withdrawal Amt."] = NaN
           /\ transactions[r]["Deposit Amt."] = "5,000.00"
           /\ df.rows[r]["Deposit Amt."] = Float(500000)



(***************************************************************************)
(* Rows of the frame against the matched transaction lines.                *)
(***************************************************************************)
\* the columns of a raw row that the conversion leaves as text
KeptAsText(b) ==
    IF b = "HDFC"
    THEN Range(RawColumns(b, HdfcMapping)) \ {"Date", "Withdrawal Amt.", "Deposit Amt."}
    ELSE Range(RawColumns(b, SameLineMapping)) \ {"Date"}

\* row r of the frame is the r-th matched transaction line, converted
RowFromMatch(r) ==
    /\ MatchTransaction(detected_bank, text, blocks[r].at).match_found
    /\ \A q \in 1..(r - 1) : blocks[q].at < blocks[r].at
    /\ \A c \in KeptAsText(detected_bank) : df.rows[r][c] = transactions[r][c]
    /\ df.rows[r]["Date"] = to_datetime(transactions[r]["Date"], DateFormat(detected_bank))

\* the returned frame has the rows of df in their order under the new names
RenamedInOrder ==
    /\ ret.kind = "DataFrame"
    /\ Len(ret.columns) = Len(df.columns)
    /\ Len(ret.rows) = Len(df.rows)
    /\ \A r \in 1..Len(df.rows) : \A k \in 1..Len(df.columns) :
           ret.rows[r][ret.columns[k]] = df.rows[r][df.columns[k]]

\* C21: the frame has exactly one row per matched transaction line, in the
\* order of the lines in the text; a row whose date or amount text does not
\* convert is kept with that field missing; conversion, reordering and
\* renaming of columns drop, duplicate or reorder no row.
C21_OneRowPerMatch ==
    /\ ScanOver /\ df # NotYet =>
           /\ Len(transactions) = Len(blocks)
           /\ Len(df.rows) = Len(blocks)
           /\ \A r \in 1..Len(df.rows) : RowFromMatch(r)
    /\ (pc = "done" /\ HasRows) => RenamedInOrder

\* two rows are returned, the first with a date that did not convert
C21_Witness ==
    /\ pc = "done"
    /\ HasRows
    /\ Len(ret.rows) = 2
    /\ transactions[1]["Date"] = "31/02/23"
    /\ ret.rows[1]["Date"] = NaT
    /\ ret.rows[1]["Narration"] = "UPI-SHOP"
    /\ ret.rows[2]["Date"] # NaT



(***************************************************************************)
(* The cleaning of column names, on frames whose names collide.            *)
(***************************************************************************)
MaxColumns == 3

\* column names, several of which clean to Ref_No or to Ref_No_1
ColumnNames == {"Date", "Ref No", "Ref.No.", "Ref_No", "Ref_No_1", "Ref No (1)"}

\* a frame of one row whose cells hold the names of their columns
NamedFrame(columns) ==
    [kind |-> "DataFrame",
     columns |-> columns,
     rows |-> <<[c \in Range(columns) |-> c]>>]

\* parser.parse() has returned a frame of at most MaxColumns columns
InitColumns ==
    /\ pdf_exists = TRUE
    /\ pdf_loads = TRUE
    /\ pdf_text = <<H_NAME>>
    /\ InitApp
    /\ InitClassifier
    /\ pc = "returned"
    /\ text = <<H_NAME>>
    /\ detected_bank = "HDFC"
    /\ bank_config = BankName("HDFC")
    /\ i = 2
    /\ transactions = <<>>
    /\ blocks = <<>>
    /\ in_transaction_section = FALSE
    /\ header_found = FALSE
    /\ skipped_lines_count = 0
    /\ \E n \in 1..MaxColumns : \E columns \in [1..n -> ColumnNames] :
           /\ \A j, k \in 1..n : j # k => columns[j] # columns[k]
           /\ df = NamedFrame(columns)
           /\ parsed_df = NamedFrame(columns)
    /\ ret = NotYet

NextColumns == Return

SpecColumns == InitColumns /\ [][NextColumns]_vars

\* the k-th of the names base, base_1, base_2, ...
Suffixed(base, k) == IF k = 1 THEN base ELSE base \o "_" \o Digits[k - 1]

\* the names of the returned frame are distinct, as many as before, and each
\* the first of base, base_1, base_2, ... no earlier column has
DistinctNames ==
    LET old == df.columns
        new == ret.columns
    IN  /\ Len(new) = Len(old)
        /\ \A j, k \in 1..Len(new) : j # k => new[j] # new[k]
        /\ \A k \in 1..Len(new) :
               LET base == CleanName(old[k])
                   earlier == {new[j] : j \in 1..(k - 1)}
               IN  /\ ret.rows[1][new[k]] = old[k]
                   /\ base \notin earlier => new[k] = base
                   /\ \E n \in 1..(k + 1) :
                          /\ new[k] = Suffixed(base, n)
                          /\ \A m \in 1..(n - 1) : Suffixed(base, m) \in earlier
        /\ (\A k \in 1..Len(old) : CleanName(old[k]) = CleanName(old[1])) =>
               \A k \in 1..Len(new) : new[k] = Suffixed(CleanName(old[1]), k)

\* C22: after the column names are cleaned they are pairwise distinct and
\* as many as before: the first column of a cleaned name keeps it, the next
\* that collides gets _1, the next _2, in column order, and a suffixed name
\* that another column already has is passed over.
C22_CleanedNamesDistinct ==
    (pc = "done" /\ df.kind = "DataFrame" /\ ~IsEmpty(df)) => DistinctNames

\* Ref_No_1 is a column's own name, so the second Ref_No becomes Ref_No_2
C22_Witness ==
    /\ pc = "done"
    /\ df.kind = "DataFrame"
    /\ df.columns = <<"Ref_No_1", "Ref No", "Ref.No.">>
    /\ ret.columns = <<"Ref_No_1", "Ref_No", "Ref_No_2">>



(***************************************************************************)
(* The order of the frame's columns.                                       *)
(***************************************************************************)
IdentifierColumns == {"Transaction Id", "Chq./Ref.No."}

DescriptionColumns == {"Narration", "Remarks"}

ValueColumns ==
    {"Withdrawal Amt.", "Deposit Amt.", "Closing Balance", "Closing Balance_Num",
     "Amount(Rs.)", "Balance(Rs.)", "Balance(Rs.)_Num", "Balance", "Balance_Num",
     "Amount_Num", "Type"}

\* the group of a column: date, identifier, description, value, other
ColumnGroup(col) ==
    CASE col = "Date" -> 0
      [] col \in IdentifierColumns -> 1
      [] col \in DescriptionColumns -> 2
      [] col \in ValueColumns -> 3
      [] OTHER -> 4

\* the columns of the frame are those of the assembled table, each once
SameColumns ==
    /\ Len(df.columns) = Len(ConvertedColumns(detected_bank))
    /\ Range(df.columns) = Range(ConvertedColumns(detected_bank))
    /\ \A r \in 1..Len(df.rows) : DOMAIN df.rows[r] = Range(df.columns)

\* C25: in the output table the date is first, identifier and reference
\* columns precede description columns, these precede amount, balance and
\* direction columns, the other columns come last in first-seen order, and
\* the table has exactly the assembled columns, each once.
C25_ColumnOrder ==
    HasRows =>
        /\ df.columns[1] = "Date"
        /\ \A j, k \in 1..Len(df.columns) :
               j < k => ColumnGroup(df.columns[j]) <= ColumnGroup(df.columns[k])
        /\ SelectSeq(df.columns, LAMBDA col : ColumnGroup(col) = 4)
               = SelectSeq(ConvertedColumns(detected_bank), LAMBDA col : ColumnGroup(col) = 4)
        /\ SameColumns

\* the order holds for the Union Bank and SBI layouts, and every layout's
\* frame has exactly the assembled columns
ColumnOrderOfAmountLayouts ==
    /\ detected_bank \in {"UNION_BANK", "SBI"} => C25_ColumnOrder
    /\ HasRows => SameColumns /\ df.columns[1] = "Date"

\* an HDFC frame: Narration stands before Chq./Ref.No., and Value Dt before
\* the amounts
C25_Witness ==
    /\ HasRows
    /\ detected_bank = "HDFC"
    /\ df.columns[2] = "Narration"
    /\ df.columns[3] = "Chq./Ref.No."
    /\ df.columns[4] = "Value Dt"
    /\ df.columns[5] = "Withdrawal Amt."



(***************************************************************************)
(* Direction and amount of an HDFC row.                                    *)
(***************************************************************************)
\* an HDFC amount text that shows a number other than zero
ShowsNonZero(amount_str) == amount_str \in {"100.00", "5,000.00"}

\* C29: an HDFC row has Type Dr and Amount_Num the withdrawal when the
\* withdrawal is non-zero; otherwise Type Cr and Amount_Num the deposit when
\* the deposit is non-zero; otherwise no Type and no Amount(Rs.); with both
\* non-zero the row is a debit of the withdrawal.
C29_HdfcDirection ==
    (HasRows /\ detected_bank = "HDFC") =>
        \A r \in 1..Len(df.rows) :
            LET withdrawal == transactions[r]["Withdrawal Amt."]
                deposit == transactions[r]["Deposit Amt."]
                row == df.rows[r]
            IN  IF ShowsNonZero(withdrawal)
                THEN /\ row["Type"] = "Dr"
                     /\ row["Amount_Num"] = Float(Magnitude(withdrawal))
                     /\ row["Amount(Rs.)"] = Fixed2(row["Amount_Num"]) \o " (Dr)"
                ELSE IF ShowsNonZero(deposit)
                THEN /\ row["Type"] = "Cr"
                     /\ row["Amount_Num"] = Float(Magnitude(deposit))
                     /\ row["Amount(Rs.)"] = Fixed2(row["Amount_Num"]) \o " (Cr)"
                ELSE /\ row["Type"] = None
                     /\ row["Amount(Rs.)"] = None

\* a row with withdrawal 100.00 and deposit 5,000.00 is a debit of 100.00,
\* and a row with neither amount has no direction
C29_Witness ==
    /\ HasRows
    /\ detected_bank = "HDFC"
    /\ \E r \in 1..Len(df.rows) :
           /\ transactions[r]["Withdrawal Amt."] = "100.00"
           /\ transactions[r]["Deposit Amt."] = "5,000.00"
           /\ df.rows[r]["Type"] = "Dr"
           /\ df.rows[r]["Amount_Num"] = Float(10000)
    /\ \E r \in 1..Len(df.rows) :
           /\ transactions[r]["Withdrawal Amt."] = ""
           /\ transactions[r]["Deposit Amt."] = ""
           /\ df.rows[r]["Type"] = None
           /\ df.rows[r]["Amount(Rs.)"] = None



(***************************************************************************)
(* classifier.py: load_classifier, classify_transaction_ml and             *)
(* add_classification.                                                     *)
(***************************************************************************)
income_threshold == 5000

\* the labels a trained pipeline predicts
Labels == {"Uncategorized", "Transfers"}

\* a saved pipeline, by the label it predicts for the description NEFT ACME
Pipelines == {<<label>> : label \in Labels}

\* load_classifier(): the pipeline, NoFile standing for None
load_classifier == model_file

\* isinstance(description, str) and description.strip()
IsText(description) == description \notin {None, "", "   "}

classify_transaction_ml(description, pipeline) ==
    IF pipeline = NoFile THEN "Uncategorized"
    ELSE IF ~IsText(description) THEN "Uncategorized"
    ELSE pipeline[1]

\* an amount from the threshold on
Exceeds_or_equal(amount) == amount # NaN /\ amount[1] >= income_threshold * 100

\* numeric_amount.notna() & (numeric_amount > income_threshold)
Exceeds(amount) == amount # NaN /\ amount[1] > income_threshold * 100

\* the row mask of the Fallback Classification for Large Credits
LargeCredit(columns, row, category) ==
    IF "Type" \in columns /\ "Amount_Num" \in columns
    THEN category = "Uncategorized" /\ row["Type"] = "Cr" /\ Exceeds(row["Amount_Num"])
    ELSE IF "Deposit Amt." \in columns
    THEN category = "Uncategorized" /\ Exceeds(row["Deposit Amt."])
    ELSE FALSE

\* the description column add_classification picks
DescriptionCol(columns) ==
    IF "Remarks" \in columns THEN "Remarks"
    ELSE IF "Narration" \in columns THEN "Narration"
    ELSE None

\* the Category of a row: the pipeline's label, then the fallback
Category(columns, row, pipeline) ==
    IF DescriptionCol(columns) = None THEN "Uncategorized"
    ELSE LET category == classify_transaction_ml(row[DescriptionCol(columns)], pipeline)
         IN  IF LargeCredit(columns, row, category) THEN "Salary/Income" ELSE category

\* add_classification(df) with the pipeline load_classifier returned
WithCategory(frame, pipeline) ==
    IF IsEmpty(frame) THEN frame
    ELSE LET columns == Range(frame.columns)
             Old(r) == [c \in columns \ {"Category"} |-> frame.rows[r][c]]
         IN  [kind |-> "DataFrame",
              columns |-> IF "Category" \in columns THEN frame.columns
                          ELSE Append(frame.columns, "Category"),
              rows |-> [r \in 1..Len(frame.rows) |->
                          Old(r) @@ [c \in {"Category"} |->
                                        Category(columns, frame.rows[r], pipeline)]]]

add_classification ==
    /\ class_df # NotYet
    /\ class_df' = WithCategory(class_df, load_classifier)
    /\ UNCHANGED <<parser_vars, app_vars, model_file, trained>>

(***************************************************************************)
(* add_classification on frames of the parser's shape.                     *)
(***************************************************************************)
MaxRows == 2

\* the rows of a frame of the parser, as far as add_classification reads them
ParsedRows(description_col) ==
    {[c \in {description_col, "Type", "Amount_Num"} |->
         CASE c = description_col -> description
           [] c = "Type" -> type
           [] c = "Amount_Num" -> amount] :
     description \in {"NEFT ACME", ""},
     type \in {"Dr", "Cr", None},
     amount \in {NaN, Float(300000), Float(500000), Float(500001), Float(700000)}}

\* class_df is a frame of at most MaxRows rows with Remarks or Narration
ParsedFrames ==
    \E description_col \in {"Remarks", "Narration"} : \E n \in 0..MaxRows :
        \E rows \in [1..n -> ParsedRows(description_col)] :
            class_df = IF n = 0 THEN EmptyDataFrame
                       ELSE [kind |-> "DataFrame",
                             columns |-> <<description_col, "Amount_Num", "Type">>,
                             rows |-> rows]

InitClassify ==
    /\ NoStatement
    /\ InitParser
    /\ InitApp
    /\ model_file \in {NoFile} \cup Pipelines
    /\ trained = [outcome |-> "never", rows |-> 0]
    /\ ParsedFrames

NextClassify == add_classification

SpecClassify == InitClassify /\ [][NextClassify]_vars

\* add_classification has run on a frame with rows
Classified == class_df # NotYet /\ "Category" \in Range(class_df.columns)

\* the credit amounts above 5000
Above5000 == {Float(500001), Float(700000)}

\* C23: after add_classification a row is 'Salary/Income' by the fallback
\* exactly when the classifier left it 'Uncategorized', it is a credit and
\* its amount is strictly greater than 5000; debits of any amount and rows of
\* another category keep the classifier's category.
C23_LargeCreditFallback ==
    Classified =>
        \A r \in 1..Len(class_df.rows) :
            LET row == class_df.rows[r]
                description == row[DescriptionCol(Range(class_df.columns))]
                category == classify_transaction_ml(description, model_file)
            IN  row["Category"] =
                    IF /\ category = "Uncategorized"
                       /\ row["Type"] = "Cr"
                       /\ row["Amount_Num"] \in Above5000
                    THEN "Salary/Income"
                    ELSE category

\* an uncategorized credit of 7000.00 is Salary/Income, one of exactly
\* 5000.00 stays Uncategorized
C23_Witness ==
    /\ Classified
    /\ Len(class_df.rows) = 2
    /\ class_df.rows[1]["Type"] = "Cr"
    /\ class_df.rows[1]["Amount_Num"] = Float(700000)
    /\ class_df.rows[1]["Category"] = "Salary/Income"
    /\ class_df.rows[2]["Type"] = "Cr"
    /\ class_df.rows[2]["Amount_Num"] = Float(500000)
    /\ class_df.rows[2]["Category"] = "Uncategorized"



(***************************************************************************)
(* classifier.py: train_classifier, and the retrain section of             *)
(* pages/manage_classifier.py.                                             *)
(***************************************************************************)
MIN_SAMPLES_FOR_TRAINING == 10

MaxData == 11

\* a call that leaves an existing model file where it is
TrainInsufficient_keeps_file(n) ==
    /\ n < MIN_SAMPLES_FOR_TRAINING
    /\ trained' = [outcome |-> "insufficient", rows |-> n]
    /\ UNCHANGED <<parser_vars, app_vars, model_file, class_df>>

\* train_classifier(data_df) with n rows, fewer than the minimum: an
\* existing MODEL_FILE is removed and None returned
TrainInsufficient(n) ==
    /\ n < MIN_SAMPLES_FOR_TRAINING
    /\ model_file' = NoFile
    /\ trained' = [outcome |-> "insufficient", rows |-> n]
    /\ UNCHANGED <<parser_vars, app_vars, class_df>>

\* train_classifier: pipeline.fit and joblib.dump succeed
TrainFits(n) ==
    /\ n >= MIN_SAMPLES_FOR_TRAINING
    /\ model_file' \in Pipelines
    /\ trained' = [outcome |-> "fitted", rows |-> n]
    /\ UNCHANGED <<parser_vars, app_vars, class_df>>

\* train_classifier: fitting or saving raises, None is returned
TrainFails(n) ==
    /\ n >= MIN_SAMPLES_FOR_TRAINING
    /\ trained' = [outcome |-> "failed", rows |-> n]
    /\ UNCHANGED <<parser_vars, app_vars, model_file, class_df>>

train_classifier(n) == TrainInsufficient(n) \/ TrainFits(n) \/ TrainFails(n)

\* the button of the retrain section: the corrections file has n rows
RetrainClassifierNow ==
    \E n \in 0..MaxData :
        IF n >= MIN_SAMPLES_FOR_TRAINING
        THEN train_classifier(n)
        ELSE UNCHANGED vars

\* frames of debits, so that Category is the label of the classifier
DebitFrames ==
    \E n \in 0..MaxRows :
        \E descriptions \in [1..n -> {"NEFT ACME", "", "   ", None}] :
            class_df = IF n = 0 THEN EmptyDataFrame
                       ELSE [kind |-> "DataFrame",
                             columns |-> <<"Remarks", "Amount_Num", "Type">>,
                             rows |-> [r \in 1..n |->
                                         [c \in {"Remarks", "Amount_Num", "Type"} |->
                                             CASE c = "Remarks" -> descriptions[r]
                                               [] c = "Amount_Num" -> Float(300000)
                                               [] c = "Type" -> "Dr"]]]

InitClassifierRuns ==
    /\ NoStatement
    /\ InitParser
    /\ InitApp
    /\ model_file \in {NoFile} \cup Pipelines
    /\ trained = [outcome |-> "never", rows |-> 0]
    /\ DebitFrames

NextClassifier ==
    \/ RetrainClassifierNow
    \/ \E n \in 0..MaxData : train_classifier(n)
    \/ add_classification

SpecClassifier == InitClassifierRuns /\ [][NextClassifier]_vars

\* a classification step without a model, or of a description that is empty
\* or not text, gives Uncategorized
UncategorizedWithoutModel ==
    class_df' # class_df =>
        \A r \in 1..Len(class_df'.rows) :
            (model_file = NoFile \/ ~IsText(class_df'.rows[r]["Remarks"])) =>
                class_df'.rows[r]["Category"] = "Uncategorized"

\* a model file appears only by a training on enough rows, and once absent
\* stays absent until then
WrittenBySuccessfulTraining ==
    model_file' # model_file /\ model_file' # NoFile =>
        /\ trained'.outcome = "fitted"
        /\ trained'.rows >= MIN_SAMPLES_FOR_TRAINING

UploadStatements ==
    {<<H_HDR, H_TXN1>>, <<H_HDR, H_TXN2>>, <<U_HDR, U_TXN_S>>, <<S_HDR, S_TXN>>}

\* what parse_bank_statement returns for a text of a header and one line
OneLineResult(t) ==
    LET b == detect_bank(t)
        m == MatchTransaction(b, t, 2)
    IN  IF b = None \/ ~m.match_found THEN EmptyDataFrame
        ELSE CleanColumns(PostCheckResult(
                 BuildDataFrame(b, <<CurrentTransaction(b, m.data, m.mapping)>>)))

\* with open(temp_file_path, "wb") as f: f.write(uploaded_file.getbuffer())
Store(c) ==
    /\ caller_pc[c] = "store"
    /\ temp_file' = uploaded[c]
    /\ caller_pc' = [caller_pc EXCEPT ![c] = "parse"]
    /\ UNCHANGED <<parser_vars, classifier_vars, uploaded, results>>

\* parsed_df = parse_bank_statement(pdf_path=temp_file_path)
Parse(c) ==
    /\ caller_pc[c] = "parse"
    /\ results' = [results EXCEPT ![c] = IF temp_file = NoFile THEN EmptyDataFrame
                                         ELSE OneLineResult(temp_file)]
    /\ caller_pc' = [caller_pc EXCEPT ![c] = "remove"]
    /\ UNCHANGED <<parser_vars, classifier_vars, uploaded, temp_file>>

\* finally: if os.path.exists(temp_file_path): os.remove(temp_file_path)
Remove(c) ==
    /\ caller_pc[c] = "remove"
    /\ temp_file' = NoFile
    /\ caller_pc' = [caller_pc EXCEPT ![c] = "done"]
    /\ UNCHANGED <<parser_vars, classifier_vars, uploaded, results>>

\* each session has a file from st.file_uploader
InitUploads ==
    /\ NoStatement
    /\ InitParser
    /\ InitClassifier
    /\ temp_file = NoFile
    /\ caller_pc = [c \in Callers |-> "store"]
    /\ uploaded \in [Callers -> UploadStatements]
    /\ results = [c \in Callers |-> NotYet]

NextUploads == \E c \in Callers : Store(c) \/ Parse(c) \/ Remove(c)

SpecUploads == InitUploads /\ [][NextUploads]_vars

\* C24: two statements processed concurrently do not interfere: under every
\* interleaving of the sessions' steps (store the upload at the temporary
\* path, parse it, remove the file) the result of each session is the
\* result of parsing its own statement.
C24_NoInterference ==
    \A c \in Callers :
        results[c] # NotYet => results[c] = OneLineResult(uploaded[c])

\* a session that has finished before the other one stores its file has
\* the result of its own statement
AloneNoInterference ==
    \A c, d \in Callers :
        (c # d /\ results[c] # NotYet /\ caller_pc[d] = "store") =>
            results[c] = OneLineResult(uploaded[c])

\* session 1 uploaded an HDFC statement and holds the rows of the Union
\* Bank statement of session 2
C24_Witness ==
    /\ uploaded[1] = <<H_HDR, H_TXN1>>
    /\ uploaded[2] = <<U_HDR, U_TXN_S>>
    /\ results[1] # NotYet
    /\ results[1] = OneLineResult(uploaded[2])
    /\ results[1] # OneLineResult(uploaded[1])

\* the stepwise parse of a header and one line returns OneLineResult
OneLineResultIsReturn ==
    (pc = "done" /\ pdf_loads /\ Len(pdf_text) = 2) => ret = OneLineResult(pdf_text)



(***************************************************************************)
(* detected_bank and bank_config over repeated calls on one parser.        *)
(***************************************************************************)
\* a further call of parser.detect_bank(): with an empty text it returns
\* before it touches the fields
DetectBank ==
    /\ pc \in {"parse", "scan", "returned"}
    /\ LET found == IF text = <<>> THEN detected_bank ELSE detect_bank(text)
       IN  /\ detected_bank' = found
           /\ bank_config' = IF text = <<>> THEN bank_config
                             ELSE IF found = None THEN None
                             ELSE BankName(found)
    /\ UNCHANGED <<outer_vars, pc, text, scan_vars, df, parsed_df, ret>>

\* a further call of parser.parse() after it returned
ParseAgain ==
    /\ pc = "returned"
    /\ pc' = "parse"
    /\ UNCHANGED <<outer_vars, text, detected_bank, bank_config, scan_vars, df, parsed_df,
                   ret>>

NextCalls == NextDetect \/ DetectBank \/ ParseAgain

\* texts of up to MaxCallLines lines: bank names, headers, start lines and
\* lines that belong to no layout, in any order
MaxCallLines == 3

CallLines == {U_NAME, S_HDR, U_HDR, H_TXN1, U_TXN_S, H_CONT}

CallTexts(t) == \E n \in 0..MaxCallLines : t \in [1..n -> CallLines]

InitCalls == InitFile(CallTexts) /\ InitProgram

SpecCalls == InitCalls /\ [][NextCalls]_vars

\* C27: after any sequence of detect_bank and parse calls detected_bank is
\* None exactly when bank_config is None, and a bank_config that is set is
\* the registry entry of detected_bank; a detection that finds no layout
\* leaves both None and raises nothing, and a parser with an empty text has
\* no layout.
C27_LayoutFieldsAgree ==
    /\ (detected_bank = None) <=> (bank_config = None)
    /\ detected_bank # None =>
           /\ detected_bank \in BankKeys
           /\ bank_config = BankName(detected_bank)
    /\ text = <<>> => detected_bank = None
    /\ (pc = "returned" /\ text # <<>> /\ detect_bank(text) = None) =>
           /\ detected_bank = None
           /\ parsed_df = EmptyDataFrame
    /\ pc = "scan" => detected_bank = detect_bank(text)

\* parse() has returned from a text in which no layout is found
C27_Witness ==
    /\ pc = "returned"
    /\ text # <<>>
    /\ detect_bank(text) = None
    /\ detected_bank = None
    /\ bank_config = None



(***************************************************************************)
(* Union Bank transactions of the multi-line variant and their balance.    *)
(***************************************************************************)
MaxLook == 3

\* a Union Bank header and at most MaxLook lines: transactions without a
\* balance, one with a second marker, a balance line, a continuation line,
\* a blank line, a transaction with its balance
MultiTexts(t) ==
    \E k \in 0..MaxLook :
        \E body \in [1..k -> {U_TXN_M, U_TXN_MT, U_BAL, U_CONT, BLANK, U_TXN_S}] :
            t = <<U_HDR>> \o body

InitMulti == InitFile(MultiTexts) /\ InitProgram

NextMulti ==
    \/ FileMissing
    \/ Construct
    \/ ParseEmptyText
    \/ DetectFails
    \/ DetectSucceeds
    \/ ScanHeader
    \/ ScanBreak
    \/ ScanMatch
    \/ ScanNoMatch
    \/ ScanEnd
    \/ Assemble
    \/ PostCheck
    \/ Return

SpecMulti == InitMulti /\ [][NextMulti]_vars

\* line k matches the multi-line pattern and not the same-line pattern
MultiLineVariant(k) ==
    /\ UnionSameGroups(Strip(text[k])) = NoMatch
    /\ UnionMultiGroups(Strip(text[k])) # NoMatch

\* the bare balance lines among the lines absorbed by row r
BalanceLinesOf(r) ==
    {k \in (blocks[r].at + 1)..(blocks[r].at + blocks[r].consumed) :
        UnionBalanceGroup(Strip(text[k])) # None}

\* C30: a Union Bank transaction of the multi-line variant whose
\* continuation run has no bare balance line is emitted as a row with its
\* balance missing; the balance of a row is never the trailing marker of its
\* line and never a balance line that belongs to a later transaction.
C30_BalanceFromOwnRun ==
    (ScanOver /\ detected_bank = "UNION_BANK") =>
        /\ \A k \in 2..Min(i - 1, Len(text)) :
               (MultiLineVariant(k) /\ ~\E r \in 1..Len(blocks) : AbsorbedBy(r, k))
                   => RowAt(k)
        /\ \A r \in 1..Len(blocks) :
               MultiLineVariant(blocks[r].at) =>
                   LET balance == transactions[r]["Balance(Rs.)"]
                   IN  /\ BalanceLinesOf(r) = {} => balance = None
                       /\ balance # None =>
                              \E k \in BalanceLinesOf(r) :
                                  balance = UnionBalanceGroup(Strip(text[k]))
                       /\ (df # NotYet /\ BalanceLinesOf(r) = {})
                              => df.rows[r]["Balance(Rs.)_Num"] = NaN

\* the line with a second marker is followed by the next transaction: its
\* row has no balance, and the balance line below belongs to the second row
C30_Witness ==
    /\ pc = "done"
    /\ text = <<U_HDR, U_TXN_MT, U_TXN_M, U_BAL>>
    /\ Len(ret.rows) = 2
    /\ transactions[1]["Balance(Rs.)"] = None
    /\ ret.rows[1]["Balance_Rs_Num"] = NaN
    /\ transactions[2]["Balance(Rs.)"] = "5,900.00 (Cr)"



(***************************************************************************)
(* The line scan: progress, termination and the lines it absorbs.          *)
(***************************************************************************)
MaxScan == 3

ScanLines(f) ==
    CASE f = "SBI" -> {S_TXN, S_CONT, BLANK}
      [] f = "HDFC" -> {H_TXN1, H_TXN2, H_CONT, H_FOOT_EXC, BLANK}
      [] f = "UNION_BANK" -> {U_TXN_S, U_TXN_M, U_BAL, U_CONT, BLANK}

\* a header and at most MaxScan lines of one layout
ScanTexts(t) ==
    \E f \in BankKeys : \E h \in HeaderLines(f) \ {U_HDRTXN} :
        \E k \in 0..MaxScan : \E body \in [1..k -> ScanLines(f)] :
            t = <<h>> \o body

InitScan == InitFile(ScanTexts) /\ InitProgram

\* what an iteration of the while loop of _parse_transactions, or its exit,
\* does to pc and i: the loop ends at the end of the text and at a stop
\* condition, and otherwise goes on after the lines a match absorbed
ScanIteration ==
    /\ pc = "scan"
    /\ IF \/ i > Len(text)
          \/ ~AtHeader /\ in_transaction_section /\ (blank_stop \/ should_stop)
       THEN pc' = "post" /\ i' = i
       ELSE /\ pc' = "scan"
            /\ i' = i + 1 +
                   (IF /\ ~AtHeader
                       /\ in_transaction_section
                       /\ MatchTransaction(detected_bank, text, i).match_found
                    THEN MatchTransaction(detected_bank, text, i).consumed_lines
                    ELSE 0)

\* the loop is sequential code: an iteration that can run does run
SpecScanFair == InitScan /\ [][NextMulti]_vars /\ WF_<<pc, i>>(ScanIteration)

\* the look-ahead of row r takes line k
LookaheadTakes(r, k) ==
    LET s == Strip(text[k])
        first == blocks[r].at
    IN  CASE detected_bank = "HDFC" ->
                 s # "" /\ ~StartSearch("HDFC", text[k]) /\ NarrationContMatch(s)
          [] detected_bank = "UNION_BANK" /\ ~MultiLineVariant(first) ->
                 /\ s # ""
                 /\ ~StartSearch("UNION_BANK", text[k])
                 /\ UnionBalanceGroup(s) = None
                 /\ RemarksContMatch(s)
          [] detected_bank = "UNION_BANK" /\ MultiLineVariant(first) ->
                 \/ /\ UnionBalanceGroup(s) # None
                    /\ \A j \in (first + 1)..(k - 1) : UnionBalanceGroup(Strip(text[j])) = None
                 \/ RemarksContMatch(s)
          [] OTHER -> FALSE

\* the lines absorbed by a row are those after its line up to where the
\* look-ahead stopped; no row starts at an absorbed line
BlocksExact ==
    \A r \in 1..Len(blocks) :
        LET last == blocks[r].at + blocks[r].consumed
        IN  /\ last <= Len(text)
            /\ \A k \in (blocks[r].at + 1)..last : LookaheadTakes(r, k)
            /\ last < Len(text) => ~LookaheadTakes(r, last + 1)
            /\ \A q \in 1..Len(blocks) : ~AbsorbedBy(r, blocks[q].at)
            /\ \A q \in 1..(r - 1) : blocks[q].at + blocks[q].consumed < blocks[r].at

\* an iteration moves the index by one, or by one and the absorbed lines of
\* the row it appended
ScanAdvances ==
    (pc = "scan" /\ pc' = "scan") =>
        IF Len(blocks') > Len(blocks)
        THEN /\ blocks'[Len(blocks')].at = i
             /\ i' = i + 1 + blocks'[Len(blocks')].consumed
        ELSE i' = i + 1

\* C26: the line scan terminates and handles every line once: each
\* iteration advances the index by 1 plus the lines the matched transaction
\* absorbed, the absorbed lines are the lines after the transaction line up
\* to where the look-ahead stopped, and no absorbed line is examined as a
\* transaction line or gives a row of its own.
C26_ScanTerminates ==
    /\ (pc = "scan") ~> (pc = "post")
    /\ [](pc = "scan" => i <= Len(text) + 1)
    /\ [](detected_bank # None => BlocksExact)
    /\ [][ScanAdvances /\ (pc = "scan" => ScanIteration)]_vars

\* the scan has ended after a row that absorbed a continuation line and a
\* balance line
C26_Witness ==
    /\ pc = "post"
    /\ text = <<U_HDR, U_TXN_M, U_CONT, U_BAL>>
    /\ Len(blocks) = 1
    /\ blocks[1] = [at |-> 2, consumed |-> 2]
    /\ i = 5

====
